---- MODULE Spec2Model ----
(***************************************************************************)
(* Verification model of the fort-gym orchestration core:                  *)
(*   - JobRegistry.start / launch_next / worker   (bench/run/jobs.py)      *)
(*   - run_once, the batch run loop               (bench/run/runner.py)    *)
(*   - step_endpoint, the interactive step        (bench/api/routes_step.py)*)
(*   - pause_run / resume_run / stop_run          (bench/api/server.py)    *)
(*   - RunRegistry.set_status / set_summary       (bench/run/storage.py)   *)
(* Threads are modelled at the granularity of their lock sections and of   *)
(* their blocking environment calls.                                       *)
(***************************************************************************)
EXTENDS Integers, Sequences, FiniteSets, TLC

\* ------------------------------------------------------------------------
\* Bounds of the model
\* ------------------------------------------------------------------------
MaxN == 3          \* largest job size n explored
MaxPar == 2        \* largest parallelism explored
NumStarters == 2   \* number of JobRegistry.start invocations for the job

MaxSteps == 3      \* largest max_steps of a run explored
NumHandlers == 2   \* number of concurrent /step request handlers
MaxTicks == 2      \* number of clock advances explored
MaxEvSteps == 2    \* largest max_steps of a run followed event by event
NumSubs == 2       \* number of subscribers of a run's live events
MaxUtcTicks == 4   \* number of half-second clock advances for share tokens
MaxCap == 2        \* largest capacity of a rate-limit bucket
MaxMono == 4       \* number of 0.1 s advances of the monotonic clock
TokenUnit == 4     \* a token is counted in TokenUnit parts
MaxEvents == 3     \* events emitted while subscribers stream, and events
                   \* emitted beyond the capacity of the queue
MaxSmallJumps == 2 \* one-tick advances followed in one polling loop

\* _TokenBucket.take: max(0.1, retry_after), in ticks of 0.1 s
MIN_RETRY == 1
\* _TokenBucket.take: 60.0 when refill_per_s is not positive, in ticks
NO_REFILL_RETRY == 600

\* asyncio.Queue(maxsize=512) of RunRegistry.create
QUEUE_MAXSIZE == 512

MaxSlots == MaxN + 1
Slots == 1..MaxSlots
Starters == 1..NumStarters

Min(a, b) == IF a <= b THEN a ELSE b
Max(a, b) == IF a >= b THEN a ELSE b

VARIABLES
    \* ---- JobRegistry (jobs.py) ----
    jobN,        \* JobInfo.n
    jobPar,      \* JobInfo.parallelism
    jobStatus,   \* JobInfo.status
    run_ids,     \* JobInfo.run_ids
    started,     \* _state[job_id]["started"]
    completed,   \* _state[job_id]["completed"]
    spc,         \* position of each start() caller
    sleft,       \* remaining iterations of start()'s "for _ in range(initial)"
    wpc,         \* position of each worker thread, by slot_index
    wres,        \* what make_run produced in each worker
    jobSeen,     \* history: every status the job has had
    lateOk,      \* history: a worker recorded a success after the job failed
    \* ---- one run: its registry row (storage.py), trace file, threads ----
    backend,     \* RunInfo.backend
    maxSteps,    \* RunInfo.max_steps
    regStatus,   \* runs.status
    regStep,     \* runs.step
    regStarted,  \* runs.started_at IS NOT NULL
    regEnded,    \* runs.ended_at IS NOT NULL
    regSummary,  \* "steps" of runs.summary_json, NoSummary when NULL
    trace,       \* records in <artifacts>/<run_id>/trace.jsonl
    fhBuf,       \* records written to run_once's handle, not yet flushed
    bpc,         \* position of the run_once thread
    bstep,       \* run_once's loop variable "step"
    bhist,       \* history of run_once: a call site failed twice (broke);
                 \* every agent.decide so far returned a dict (dictOnly);
                 \* and its local execute_result of the iteration in
                 \* progress: refused when "accepted" is False
    \* ---- step_endpoint (routes_step.py) ----
    now,         \* wall clock, ms
    ctx,         \* the run's StepContext, NoCtx before _get_context creates it
    hpc,         \* position of each request handler
    hreq,        \* per handler: request inputs and locals
    lastResp,    \* history: the response most recently decided by a handler
    \* ---- run_once followed event by event (runner.py) ----
    epc,         \* position of the run function: call site and attempt
    estep,       \* its loop variable "step"
    evs,         \* its local "events" of the iteration: event types
    evTrace,     \* the "events" lists of the records in the trace file
    live,        \* history: event types handed to registry.append_event
    calls,       \* history: func() invocations of the latest call_with_retry
    \* ---- public_replay (server.py) ----
    rpc,         \* position of the replay generator
    rrec,        \* index of the record it is at
    rev,         \* index of the next event of that record
    frames,      \* history: the frames it yielded
    clientGone,  \* request.is_disconnected()
    \* ---- the run's live queue (storage.py) and its subscribers (sse.py) ----
    queue,       \* RunRegistry._queues[run_id]: emission numbers, oldest first
    nextEv,      \* emission number of the next event appended
    subPc,       \* per subscriber: off, on (streaming), gone
    subGot,      \* history: the events each subscriber was sent
    subFrom,     \* history: value of nextEv when the subscriber attached
    \* ---- the runs table of the registry (storage.py) ----
    rows,        \* per run id: its row, NoRow when there is none
    storeLast,   \* history: the latest operation on the table
    \* ---- share tokens (storage.py) and public endpoints (server.py) ----
    shares,      \* per token: its row of the shares table, NoShare if none;
                 \* "expires" is history: the expiry time as a time
    utc,         \* datetime.utcnow()
    lastAccess,  \* history: the latest request to a public endpoint, and
                 \* whether the token's expiry time had passed by then
    \* ---- RateLimiter (api/rate_limit.py) ----
    buckets,     \* RateLimiter._buckets, NoBucket for a key it does not hold
    mono,        \* time.monotonic(), in ticks
    rlLast,      \* history: the latest allow call, its result, the tokens
                 \* after its refill ("before") and the bucket's refusedAt
                 \* when it was made ("since")
    \* ---- pause_run (server.py) ----
    pauses,      \* history: pause_run calls counted (up to 2) where counted
    \* ---- the event loop bound to a run's queue (storage.py) ----
    loopState,   \* RunRegistry._loops[run_id]: unbound, stopped or running
    scheduled,   \* callbacks handed to call_soon_threadsafe and not yet run
    \* ---- advance_ticks_exact_external (dfhack_backend.py) ----
    apc,         \* position of the function: idle, prepare, poll, finally, done
    areq,        \* its arguments ticks and repause, and want
    aloc,        \* its locals: ok, error, timed_out, the ticks advanced
                 \* (current_tick - start_tick) and the time since t_start
    ares,        \* the dict it returned
    ahist        \* history: how the loop was left, whether
                 \* set_paused(True) was called after it, the one-tick
                 \* advances seen, and whether the rounds made are odd

jobVars == <<jobN, jobPar, jobStatus, run_ids, started, completed,
             spc, sleft, wpc, wres, jobSeen, lateOk>>

runVars == <<backend, maxSteps, regStatus, regStep, regStarted, regEnded,
             regSummary, trace, fhBuf, bpc, bstep, bhist>>

stepVars == <<now, ctx, hpc, hreq, lastResp>>

runEvVars == <<epc, estep, evs, evTrace, live, calls>>

replayVars == <<rpc, rrec, rev, frames, clientGone>>

queueVars == <<queue, nextEv, subPc, subGot, subFrom>>

storeVars == <<rows, storeLast>>

shareVars == <<shares, utc, lastAccess>>

limiterVars == <<buckets, mono, rlLast>>

earlyVars == <<runEvVars, replayVars, queueVars, storeVars, shareVars,
               limiterVars>>

ctlVars == <<pauses>>

loopVars == <<loopState, scheduled>>

tickVars == <<apc, areq, aloc, ares, ahist>>

lateVars == <<ctlVars, loopVars, tickVars>>

auxVars == <<earlyVars, lateVars>>

vars == <<jobVars, runVars, stepVars, auxVars>>

\* ------------------------------------------------------------------------
\* JobRegistry
\* ------------------------------------------------------------------------

\* JobRegistry.create: parallelism=max(1, parallelism); state counters at 0.
CreateParallelism(p) == Max(1, p)

\* What a make_run call can produce: a run id, an exception, None, or "".
MakeRunOutcomes == {"id", "raise", "none", "empty"}

LaunchGuardNoCap(status, st, co, n, par) ==
    /\ status \notin {"failed", "completed"}
    /\ ~(st >= n)

LaunchGuardNoStatus(status, st, co, n, par) ==
    ~(st >= n \/ (st - co) >= par)

LaunchGuardNoLimit(status, st, co, n, par) ==
    /\ status \notin {"failed", "completed"}
    /\ ~((st - co) >= par)

\* launch_next: the two early returns taken under the lock.
LaunchGuard(status, st, co, n, par) ==
    /\ status \notin {"failed", "completed"}
    /\ ~(st >= n \/ (st - co) >= par)

\* worker: "if failed or run_id is None".
WorkerFailed(res) == res \in {"raise", "none"}

JobDoneOffByOne(co, n) == co + 1 >= n

\* worker: "if state['completed'] >= job.n".
JobDone(co, n) == co >= n

LaunchAnotherPendingOnly(status, st, n) == status = "pending" /\ st < n

\* worker: "if job.status == 'running' and state['started'] < job.n".
LaunchAnother(status, st, n) == status = "running" /\ st < n

\* The run id a worker appends: the slot's own id, or "" (modelled as 0).
RunIdOf(i, res) == IF res = "empty" THEN 0 ELSE i

JobInit ==
    /\ jobN \in 1..MaxN
    /\ jobPar \in {CreateParallelism(p) : p \in 0..MaxPar}
    /\ jobStatus = "pending"
    /\ run_ids = <<>>
    /\ started = 0
    /\ completed = 0
    /\ spc = [s \in Starters |-> "idle"]
    /\ sleft = [s \in Starters |-> 0]
    /\ wpc = [i \in Slots |-> "idle"]
    /\ wres = [i \in Slots |-> "unset"]
    /\ jobSeen = {"pending"}
    /\ lateOk = FALSE

\* start(), first lock section: status check, status = "running"; and the
\* read of initial = min(parallelism, n) (both fields are immutable).
StartEnter(s) ==
    /\ UNCHANGED <<runVars, stepVars, auxVars>>
    /\ spc[s] = "idle"
    /\ IF jobStatus \notin {"pending", "running"}
       THEN /\ spc' = [spc EXCEPT ![s] = "done"]
            /\ UNCHANGED <<jobStatus, sleft, jobSeen>>
       ELSE /\ jobStatus' = "running"
            /\ jobSeen' = jobSeen \cup {"running"}
            /\ sleft' = [sleft EXCEPT ![s] = Min(jobPar, jobN)]
            /\ spc' = [spc EXCEPT ![s] = "loop"]
    /\ UNCHANGED <<jobN, jobPar, run_ids, started, completed, wpc, wres, lateOk>>

\* start(): one iteration of "for _ in range(initial): launch_next()".
StartLaunch(s) ==
    /\ UNCHANGED <<runVars, stepVars, auxVars>>
    /\ spc[s] = "loop"
    /\ sleft[s] > 0
    /\ sleft' = [sleft EXCEPT ![s] = @ - 1]
    /\ spc' = [spc EXCEPT ![s] = IF sleft[s] = 1 THEN "done" ELSE "loop"]
    /\ IF LaunchGuard(jobStatus, started, completed, jobN, jobPar) /\ started < MaxSlots
       THEN /\ started' = started + 1
            /\ wpc' = [wpc EXCEPT ![started + 1] = "launched"]
       ELSE UNCHANGED <<started, wpc>>
    /\ UNCHANGED <<jobN, jobPar, jobStatus, run_ids, completed, wres, jobSeen, lateOk>>

\* worker thread begins: "run_id = make_run()" is entered.
WorkerCall(i) ==
    /\ UNCHANGED <<runVars, stepVars, auxVars>>
    /\ wpc[i] = "launched"
    /\ wpc' = [wpc EXCEPT ![i] = "running"]
    /\ UNCHANGED <<jobN, jobPar, jobStatus, run_ids, started, completed,
                   spc, sleft, wres, jobSeen, lateOk>>

\* make_run returns or raises.
WorkerReturn(i) ==
    /\ UNCHANGED <<runVars, stepVars, auxVars>>
    /\ wpc[i] = "running"
    /\ \E res \in MakeRunOutcomes :
         wres' = [wres EXCEPT ![i] = res]
    /\ wpc' = [wpc EXCEPT ![i] = "returned"]
    /\ UNCHANGED <<jobN, jobPar, jobStatus, run_ids, started, completed,
                   spc, sleft, jobSeen, lateOk>>

\* worker, lock section after make_run.
WorkerRecord(i) ==
    /\ UNCHANGED <<runVars, stepVars, auxVars>>
    /\ wpc[i] = "returned"
    /\ IF WorkerFailed(wres[i])
       THEN /\ jobStatus' = "failed"
            /\ jobSeen' = jobSeen \cup {"failed"}
            /\ wpc' = [wpc EXCEPT ![i] = "done"]
            /\ UNCHANGED <<run_ids, completed, lateOk>>
       ELSE /\ run_ids' = Append(run_ids, RunIdOf(i, wres[i]))
            /\ completed' = completed + 1
            /\ lateOk' = (lateOk \/ jobStatus = "failed")
            /\ IF JobDone(completed + 1, jobN)
               THEN /\ jobStatus' = "completed"
                    /\ jobSeen' = jobSeen \cup {"completed"}
                    /\ wpc' = [wpc EXCEPT ![i] = "done"]
               ELSE /\ UNCHANGED <<jobStatus, jobSeen>>
                    /\ wpc' = [wpc EXCEPT ![i] =
                                 IF LaunchAnother(jobStatus, started, jobN)
                                 THEN "relaunch" ELSE "done"]
    /\ UNCHANGED <<jobN, jobPar, started, spc, sleft, wres>>

\* worker: "if launch_another: launch_next()".
WorkerLaunch(i) ==
    /\ UNCHANGED <<runVars, stepVars, auxVars>>
    /\ wpc[i] = "relaunch"
    /\ IF LaunchGuard(jobStatus, started, completed, jobN, jobPar) /\ started < MaxSlots
       THEN /\ started' = started + 1
            /\ wpc' = [wpc EXCEPT ![i] = "done", ![started + 1] = "launched"]
       ELSE /\ wpc' = [wpc EXCEPT ![i] = "done"]
            /\ UNCHANGED started
    /\ UNCHANGED <<jobN, jobPar, jobStatus, run_ids, completed, spc, sleft,
                   wres, jobSeen, lateOk>>

JobNext ==
    \/ \E s \in Starters : StartEnter(s)
    \/ \E s \in Starters : StartLaunch(s)
    \/ \E i \in Slots : WorkerCall(i)
    \/ \E i \in Slots : WorkerReturn(i)
    \/ \E i \in Slots : WorkerRecord(i)
    \/ \E i \in Slots : WorkerLaunch(i)

\* ------------------------------------------------------------------------
\* RunRegistry row of the run (storage.py)
\* ------------------------------------------------------------------------
NoStep == 0 - 1        \* "step=None" in a set_status call
NoSummary == 0 - 1     \* summary_json IS NULL
Keep == "keep"         \* "status=None" in a set_status call

Statuses == {"pending", "running", "paused", "stopped", "completed", "failed"}

SetStatusNoEndedAt(status, step, started_at, ended_at) ==
    /\ regStatus' = IF status = Keep THEN regStatus ELSE status
    /\ regStep' = IF step = NoStep THEN regStep ELSE step
    /\ regStarted' = (regStarted \/ started_at)
    /\ regEnded' = regEnded

\* RunRegistry.set_status: only the fields passed as non-None are updated.
SetStatus(status, step, started_at, ended_at) ==
    /\ regStatus' = IF status = Keep THEN regStatus ELSE status
    /\ regStep' = IF step = NoStep THEN regStep ELSE step
    /\ regStarted' = (regStarted \/ started_at)
    /\ regEnded' = (regEnded \/ ended_at)

\* RunRegistry.create: INSERT ... status 'pending', step 0, no timestamps.
RegInit ==
    /\ regStatus = "pending"
    /\ regStep = 0
    /\ regStarted = FALSE
    /\ regEnded = FALSE
    /\ regSummary = NoSummary

\* ------------------------------------------------------------------------
\* run_once (runner.py)
\* ------------------------------------------------------------------------
Backends == {"mock", "dfhack"}

\* What agent.decide can hand back (or do):
\*   valid       a dict that parses and validates
\*   nondict     a list, a string, ...
\*   multi       a dict carrying "actions" or "plan"
\*   unparseable a dict for which parse_action raises ValueError/TypeError
\*   invalid     a dict for which validate_action returns (False, reason)
\*   crash       a dict that parses but makes validate_action raise, e.g.
\*               {"type": "ZONE", "params": {"location": "abc"}} when the
\*               observation carries map_bounds (coord < 0 on a str)
\*   error       decide itself raises
AgentOutputs == {"valid", "nondict", "multi", "unparseable", "invalid", "crash", "error"}
DictOutputs == {"valid", "multi", "unparseable", "invalid", "crash"}

\* Outcome of one call site under call_with_retry:
\*   ok    first attempt succeeds
\*   fail1 first attempt raises DFHackError, the retry succeeds
\*   fail2 both attempts raise DFHackError
\* The mock backend never raises DFHackError (call_with_retry returns func()).
EnvOutcomes(b) == IF b = "dfhack" THEN {"ok", "fail1", "fail2"} ELSE {"ok"}

\* pause_env(): a no-op on mock, an RPC that may raise on dfhack.
PauseOutcomes(b) == IF b = "dfhack" THEN {"ok", "raise"} ELSE {"ok"}

\* DFHackClient.connect() in run_once's backend setup.
ConnectOutcomes(b) == IF b = "dfhack" THEN {"ok", "unavailable"} ELSE {"ok"}

RECURSIVE MaxStepOf(_)
MaxStepOf(tr) ==
    IF tr = <<>> THEN 0 - 1
    ELSE Max(Head(tr).step, MaxStepOf(Tail(tr)))

\* summarize(): steps = steps_seen + 1, steps_seen the largest "step" read.
SummarizeSteps(tr) == IF MaxStepOf(tr) >= 0 THEN MaxStepOf(tr) + 1 ELSE 0

BatchRecordOffByOne(s, kind) == [step |-> s + 1, by |-> "batch", kind |-> kind]

\* record_line of run_once: "step": step; kind "rejected" for a record with
\* "validation": {"valid": False, "reason": ...} and the proposed action,
\* "executed" for one with "execute": execute_result, metrics and score.
BatchRecord(s, kind) == [step |-> s, by |-> "batch", kind |-> kind]

LoopPcs == {"observe", "decide", "apply", "advance"}

BatchInit ==
    /\ trace = <<>>
    /\ fhBuf = <<>>
    /\ bpc = "idle"
    /\ bstep = 0
    /\ bhist = [broke |-> FALSE, dictOnly |-> TRUE, refused |-> FALSE]

\* run_once before the backend setup: registry.get finds the row created by
\* the caller, then set_status(status="running", step=0, started_at=now).
BatchBegin ==
    /\ bpc = "idle"
    /\ SetStatus("running", 0, TRUE, FALSE)
    /\ bpc' = "setup"
    /\ UNCHANGED <<backend, maxSteps, regSummary, trace, fhBuf, bstep, bhist>>
    /\ UNCHANGED <<jobVars, stepVars, auxVars>>

\* Backend setup (dfhack: connect(), on DFHackUnavailableError status failed
\* and re-raise), then "with trace_path.open('w')" truncates the trace.
BatchSetup ==
    /\ bpc = "setup"
    /\ \E c \in ConnectOutcomes(backend) :
         IF c = "unavailable"
         THEN /\ SetStatus("failed", NoStep, FALSE, TRUE)
              /\ bpc' = "raised"
              /\ UNCHANGED <<trace, fhBuf, bstep>>
         ELSE /\ trace' = <<>>
              /\ fhBuf' = <<>>
              /\ bstep' = 0
              /\ bpc' = "observe"
              /\ UNCHANGED <<regStatus, regStep, regStarted, regEnded>>
    /\ UNCHANGED <<backend, maxSteps, regSummary, bhist>>
    /\ UNCHANGED <<jobVars, stepVars, auxVars>>

\* "except Exception": the with-block closes the file, status failed, re-raise.
BatchRaise ==
    /\ trace' = trace \o fhBuf
    /\ fhBuf' = <<>>
    /\ SetStatus("failed", NoStep, FALSE, TRUE)
    /\ bpc' = "raised"
    /\ UNCHANGED bstep

\* "except DFHackError: set_status(failed, ended_at); break": leaves the loop
\* and the with-block, which closes the file.
BatchBreak ==
    /\ trace' = trace \o fhBuf
    /\ fhBuf' = <<>>
    /\ SetStatus("failed", NoStep, FALSE, TRUE)
    /\ bpc' = "exit"
    /\ UNCHANGED bstep

BatchPersistThenApply(kind) ==
    /\ SetStatus(Keep, bstep, FALSE, FALSE)
    /\ fhBuf' = Append(fhBuf, BatchRecord(bstep, kind))
    /\ trace' = trace
    /\ bstep' = bstep
    /\ bpc' = IF kind = "rejected" THEN "apply" ELSE "observe"

\* fh.write(record_line); set_status(step=step); next iteration of
\* "for step in range(max_steps)", or the end of the with-block.
BatchPersist(kind) ==
    /\ SetStatus(Keep, bstep, FALSE, FALSE)
    /\ IF bstep + 1 < maxSteps
       THEN /\ fhBuf' = Append(fhBuf, BatchRecord(bstep, kind))
            /\ trace' = trace
            /\ bstep' = bstep + 1
            /\ bpc' = "observe"
       ELSE /\ trace' = (trace \o fhBuf) \o <<BatchRecord(bstep, kind)>>
            /\ fhBuf' = <<>>
            /\ bstep' = bstep
            /\ bpc' = "exit"

\* pause_env(); state_before = call_with_retry("observe", observe).
\* p is how pause_env() ends and o how the observe call site ends.
BatchObserveWith(p, o) ==
    /\ bpc = "observe"
    /\ IF p = "raise" THEN BatchRaise /\ UNCHANGED bhist
       ELSE IF o = "fail2" THEN BatchBreak /\ bhist' = [bhist EXCEPT !.broke = TRUE]
       ELSE /\ bpc' = "decide"
            /\ UNCHANGED <<regStatus, regStep, regStarted, regEnded,
                           trace, fhBuf, bstep, bhist>>
    /\ UNCHANGED <<backend, maxSteps, regSummary>>
    /\ UNCHANGED <<jobVars, stepVars, auxVars>>

BatchObserve ==
    \E p \in PauseOutcomes(backend), o \in EnvOutcomes(backend) :
        BatchObserveWith(p, o)

\* raw_action = agent.decide(...); shape check, parse_action,
\* validate_action, for an agent whose output is a.
BatchDecideWith(a) ==
    /\ bpc = "decide"
    /\ bhist' = [bhist EXCEPT !.dictOnly = (@ /\ a \in DictOutputs)]
    /\ CASE a \in {"error", "nondict", "crash"} -> BatchRaise
        [] a \in {"multi", "unparseable", "invalid"} -> BatchPersist("rejected")
        [] OTHER ->
             /\ bpc' = "apply"
             /\ UNCHANGED <<regStatus, regStep, regStarted, regEnded,
                            trace, fhBuf, bstep>>
    /\ UNCHANGED <<backend, maxSteps, regSummary>>
    /\ UNCHANGED <<jobVars, stepVars, auxVars>>

BatchDecide == \E a \in AgentOutputs : BatchDecideWith(a)

\* Outcome of the apply call site: those of any call site, or the executor
\* returns {"accepted": False, ...} (Executor.apply does so on dfhack only).
ApplyOutcomes(b) ==
    EnvOutcomes(b) \cup (IF b = "dfhack" THEN {"refused"} ELSE {})

SkipAdvanceWhenRefused(o) == IF o = "refused" THEN "observe" ELSE "advance"

\* Where run_once goes once apply has returned a result: execute_result is
\* published and stored, its "accepted" is not looked at.
AfterApply(o) == "advance"

\* execute_result = call_with_retry("apply", ...), with outcome o.
BatchApplyWith(o) ==
    /\ bpc = "apply"
    /\ IF o = "fail2" THEN BatchBreak /\ bhist' = [bhist EXCEPT !.broke = TRUE]
       ELSE /\ bpc' = AfterApply(o)
            /\ bhist' = [bhist EXCEPT !.refused = (o = "refused")]
            /\ UNCHANGED <<regStatus, regStep, regStarted, regEnded,
                           trace, fhBuf, bstep>>
    /\ UNCHANGED <<backend, maxSteps, regSummary>>
    /\ UNCHANGED <<jobVars, stepVars, auxVars>>

BatchApply == \E o \in ApplyOutcomes(backend) : BatchApplyWith(o)

\* advance_state = call_with_retry("advance", ...); pause_env(); metrics,
\* score; fh.write(record_line); set_status(step=step).
BatchAdvance ==
    /\ bpc = "advance"
    /\ \E o \in EnvOutcomes(backend), p \in PauseOutcomes(backend) :
         /\ bhist' = [bhist EXCEPT !.broke = (@ \/ o = "fail2"), !.refused = FALSE]
         /\ IF o = "fail2" THEN BatchBreak
            ELSE IF p = "raise" THEN BatchRaise
            ELSE BatchPersist("executed")
    /\ UNCHANGED <<backend, maxSteps, regSummary>>
    /\ UNCHANGED <<jobVars, stepVars, auxVars>>

\* The buffered handle flushes on its own once its buffer fills.
BatchFlush ==
    /\ bpc \in LoopPcs
    /\ fhBuf # <<>>
    /\ trace' = trace \o fhBuf
    /\ fhBuf' = <<>>
    /\ UNCHANGED <<backend, maxSteps, regStatus, regStep, regStarted, regEnded,
                   regSummary, bpc, bstep, bhist>>
    /\ UNCHANGED <<jobVars, stepVars, auxVars>>

\* After the with-block: set_status(completed, ended_at); summarize(trace);
\* set_summary; return run_identifier.
BatchFinish ==
    /\ bpc = "exit"
    /\ SetStatus("completed", NoStep, FALSE, TRUE)
    /\ regSummary' = SummarizeSteps(trace)
    /\ bpc' = "returned"
    /\ UNCHANGED <<backend, maxSteps, trace, fhBuf, bstep, bhist>>
    /\ UNCHANGED <<jobVars, stepVars, auxVars>>

BatchNext ==
    \/ BatchBegin
    \/ BatchSetup
    \/ BatchObserve
    \/ BatchDecide
    \/ BatchApply
    \/ BatchAdvance
    \/ BatchFlush
    \/ BatchFinish

\* ------------------------------------------------------------------------
\* pause_run / resume_run / stop_run (server.py); the run exists.
\* ------------------------------------------------------------------------
PauseRecordEnding ==
    /\ SetStatus("paused", NoStep, FALSE, TRUE)
    /\ UNCHANGED <<backend, maxSteps, regSummary, trace, fhBuf, bpc, bstep, bhist>>

\* pause_run: RUN_REGISTRY.set_status(run_id, status="paused").
PauseRecord ==
    /\ SetStatus("paused", NoStep, FALSE, FALSE)
    /\ UNCHANGED <<backend, maxSteps, regSummary, trace, fhBuf, bpc, bstep, bhist>>

PauseRun ==
    /\ PauseRecord
    /\ UNCHANGED <<jobVars, stepVars, auxVars>>

\* pause_run, with its calls counted.
PauseRunCounting ==
    /\ PauseRecord
    /\ pauses' = Min(pauses + 1, 2)
    /\ UNCHANGED <<jobVars, stepVars, earlyVars, loopVars, tickVars>>

ResumeRun ==
    /\ SetStatus("running", NoStep, FALSE, FALSE)
    /\ UNCHANGED <<backend, maxSteps, regSummary, trace, fhBuf, bpc, bstep, bhist>>
    /\ UNCHANGED <<jobVars, stepVars, auxVars>>

StopRun ==
    /\ SetStatus("stopped", NoStep, FALSE, TRUE)
    /\ UNCHANGED <<backend, maxSteps, regSummary, trace, fhBuf, bpc, bstep, bhist>>
    /\ UNCHANGED <<jobVars, stepVars, auxVars>>

ControlNext ==
    \/ PauseRun
    \/ ResumeRun
    \/ StopRun

\* ------------------------------------------------------------------------
\* step_endpoint (routes_step.py)
\* ------------------------------------------------------------------------
MIN_ALLOWED_PERIOD_MS == 100

Handlers == 1..NumHandlers
NoTs == 0 - 1          \* last_step_ts_ms is None

\* The clock is observed in multiples of the smallest pacing period.
ClockStep == MIN_ALLOWED_PERIOD_MS
MaxClock == MaxTicks * ClockStep

\* min_step_period_ms values sent by clients.
PeriodInputs == {0, 2 * MIN_ALLOWED_PERIOD_MS}

MinPeriodNoFloor(p) == p

\* min_period_ms = max(MIN_ALLOWED_PERIOD_MS, int(min_period_ms)).
MinPeriod(p) == Max(MIN_ALLOWED_PERIOD_MS, p)

\* Outcome of the statements between the first lock section and the try
\* block, and of the body of the try block up to the second lock section:
\*   malformed  raw_action is not a dict: HTTPException(400) before the try
\*   noclient   DFHackClient(...) or Executor(...) raised before the try
\*   ok       every DFHack call returned, the action is noop or valid
\*   invalid  parse_action / validate_action rejected it: HTTPException(400)
\*   dferror  connect, pause, get_state, apply or advance raised
\*   refused  as ok, but executor.apply returned {"accepted": False, ...}
BeforeTryOutcomes == {"malformed", "noclient"}
TryOutcomes == {"ok", "invalid", "dferror", "refused"}
StepOutcomes == TryOutcomes \cup BeforeTryOutcomes

NoCtx == [exists |-> FALSE, inflight |-> FALSE, completed |-> FALSE,
          last_step_ts_ms |-> NoTs, step_idx |-> 0]

\* StepContext(...) built by _get_context: step_idx=run.step.
NewCtx(runStep) == [exists |-> TRUE, inflight |-> FALSE, completed |-> FALSE,
                    last_step_ts_ms |-> NoTs, step_idx |-> runStep]

\* Locals of a handler: now_ms, min_period_ms, the fields of the record
\* "run = RUN_REGISTRY.get(run_id)" read later or of interest (started_at,
\* status == "stopped"), previous_ts, step_index, and whether
\* execute_result has "accepted" False (refused).
NoReq == [now_ms |-> 0, min_step_period_ms |-> 0,
          min_period_ms |-> 0, started_at |-> FALSE,
          stopped |-> FALSE, previous_ts |-> NoTs, step_index |-> 0,
          refused |-> FALSE]

\* "if context.completed or (context.max_steps and step_idx >= max_steps)".
AlreadyCompleted(c, m) == c.completed \/ (m # 0 /\ c.step_idx >= m)

\* "if context.inflight".
InflightBusy(c) == c.inflight

\* "if last_step_ts_ms is not None and now_ms - last_step_ts_ms < min_period".
TooSoon(c, r) ==
    c.last_step_ts_ms # NoTs /\ r.now_ms - c.last_step_ts_ms < r.min_period_ms

\* record of step_endpoint: "step": step_index, ..., "execute": ...
StepRecord(idx) == [step |-> idx, by |-> "step", kind |-> "executed"]

StepInit ==
    /\ now = 0
    /\ ctx = NoCtx
    /\ hpc = [h \in Handlers |-> "idle"]
    /\ hreq = [h \in Handlers |-> NoReq]
    /\ lastResp = "none"

Tick ==
    /\ now < MaxClock
    /\ now' = now + ClockStep
    /\ UNCHANGED <<ctx, hpc, hreq, lastResp>>
    /\ UNCHANGED <<jobVars, runVars, auxVars>>

\* RUN_REGISTRY.get(run_id), the backend check, _get_context(run), now_ms.
StepArrive(h) ==
    /\ hpc[h] = "idle"
    /\ backend = "dfhack"
    /\ ctx' = IF ctx.exists THEN ctx ELSE NewCtx(regStep)
    /\ \E p \in PeriodInputs :
         hreq' = [hreq EXCEPT ![h] =
                    [now_ms |-> now, min_step_period_ms |-> p,
                     min_period_ms |-> MinPeriod(p),
                     started_at |-> regStarted,
                     stopped |-> (regStatus = "stopped"), previous_ts |-> NoTs,
                     step_index |-> 0, refused |-> FALSE]]
    /\ hpc' = [hpc EXCEPT ![h] = "admit"]
    /\ UNCHANGED <<now, lastResp>>
    /\ UNCHANGED <<jobVars, runVars, auxVars>>

\* First "with context.lock" section: the three rejections, or inflight=True.
StepAdmit(h) ==
    /\ hpc[h] = "admit"
    /\ IF AlreadyCompleted(ctx, maxSteps)
       THEN /\ ctx' = [ctx EXCEPT !.completed = TRUE]
            /\ hreq' = [hreq EXCEPT ![h] = NoReq]
            /\ lastResp' = "400 completed"
            /\ hpc' = [hpc EXCEPT ![h] = "idle"]
       ELSE IF InflightBusy(ctx)
       THEN /\ hreq' = [hreq EXCEPT ![h] = NoReq]
            /\ lastResp' = "429 in progress"
            /\ hpc' = [hpc EXCEPT ![h] = "idle"]
            /\ UNCHANGED ctx
       ELSE IF TooSoon(ctx, hreq[h])
       THEN /\ hreq' = [hreq EXCEPT ![h] = NoReq]
            /\ lastResp' = "429 rate limit"
            /\ hpc' = [hpc EXCEPT ![h] = "idle"]
            /\ UNCHANGED ctx
       ELSE /\ ctx' = [ctx EXCEPT !.inflight = TRUE]
            /\ hreq' = [hreq EXCEPT ![h].previous_ts = ctx.last_step_ts_ms,
                                    ![h].stopped = FALSE]
            /\ hpc' = [hpc EXCEPT ![h] = "exec"]
            /\ UNCHANGED lastResp
    /\ UNCHANGED now
    /\ UNCHANGED <<jobVars, runVars, auxVars>>

\* max_ticks, raw_action, the client and the executor, and then try:
\* connect, pause, observe, parse/validate, apply, advance, pause, score,
\* with outcome o. An exception before the try leaves the handler without
\* passing through the finally clause.
StepExecWith(h, o) ==
    /\ hpc[h] = "exec"
    /\ IF o \in {"ok", "refused"}
       THEN /\ hpc' = [hpc EXCEPT ![h] = "commit"]
            /\ hreq' = [hreq EXCEPT ![h].refused = (o = "refused")]
            /\ UNCHANGED lastResp
       ELSE IF o \in BeforeTryOutcomes
       THEN /\ hpc' = [hpc EXCEPT ![h] = "idle"]
            /\ hreq' = [hreq EXCEPT ![h] = NoReq]
            /\ lastResp' = (IF o = "malformed" THEN "400 malformed" ELSE "500")
       ELSE /\ hpc' = [hpc EXCEPT ![h] = "final"]
            /\ hreq' = [hreq EXCEPT ![h] = NoReq]
            /\ lastResp' = (IF o = "invalid" THEN "400 invalid" ELSE "500")
    /\ UNCHANGED <<now, ctx>>
    /\ UNCHANGED <<jobVars, runVars, auxVars>>

StepExec(h) == \E o \in StepOutcomes : StepExecWith(h, o)

\* The same for a request that reaches the try block: its action is a JSON
\* object, as the StepRequest schema requires of an HTTP request, and the
\* client and the executor are constructed.
StepExecTry(h) == \E o \in TryOutcomes : StepExecWith(h, o)

\* Second "with context.lock" section: step_index = step_idx; step_idx += 1;
\* last_step_ts_ms = end_ms; inflight = False; completed at max_steps.
StepCommit(h) ==
    /\ hpc[h] = "commit"
    /\ ctx' = [ctx EXCEPT !.step_idx = @ + 1,
                          !.last_step_ts_ms = now,
                          !.inflight = FALSE,
                          !.completed = (@ \/ (maxSteps # 0 /\ ctx.step_idx + 1 >= maxSteps))]
    /\ hreq' = [hreq EXCEPT ![h].step_index = ctx.step_idx]
    /\ hpc' = [hpc EXCEPT ![h] = "persist"]
    /\ UNCHANGED <<now, lastResp>>
    /\ UNCHANGED <<jobVars, runVars, auxVars>>

\* trace_path.open("a") ... write(record); _write_summary(context).
StepPersist(h) ==
    /\ hpc[h] = "persist"
    /\ trace' = Append(trace, StepRecord(hreq[h].step_index))
    /\ regSummary' = ctx.step_idx
    /\ hpc' = [hpc EXCEPT ![h] = "status"]
    /\ UNCHANGED <<backend, maxSteps, regStatus, regStep, regStarted, regEnded,
                   fhBuf, bpc, bstep, bhist>>
    /\ UNCHANGED <<now, ctx, hreq, lastResp>>
    /\ UNCHANGED <<jobVars, auxVars>>

\* The three-way RUN_REGISTRY.set_status at the end of the try block.
StepSetStatus(h) ==
    /\ hpc[h] = "status"
    /\ IF ctx.step_idx = 1 /\ ~hreq[h].started_at
       THEN SetStatus("running", hreq[h].step_index, TRUE, FALSE)
       ELSE IF ctx.completed
       THEN SetStatus("completed", hreq[h].step_index, FALSE, TRUE)
       ELSE SetStatus("running", hreq[h].step_index, FALSE, FALSE)
    /\ hreq' = [hreq EXCEPT ![h] = NoReq]
            /\ lastResp' = "200"
    /\ hpc' = [hpc EXCEPT ![h] = "final"]
    /\ UNCHANGED <<backend, maxSteps, regSummary, trace, fhBuf, bpc, bstep, bhist>>
    /\ UNCHANGED <<now, ctx>>
    /\ UNCHANGED <<jobVars, auxVars>>

\* finally: with context.lock: inflight = False; dfhack_client.close().
StepFinally(h) ==
    /\ hpc[h] = "final"
    /\ ctx' = [ctx EXCEPT !.inflight = FALSE]
    /\ hpc' = [hpc EXCEPT ![h] = "idle"]
    /\ UNCHANGED <<now, hreq, lastResp>>
    /\ UNCHANGED <<jobVars, runVars, auxVars>>

StepNext ==
    \/ Tick
    \/ \E h \in Handlers : StepArrive(h)
    \/ \E h \in Handlers : StepAdmit(h)
    \/ \E h \in Handlers : StepExec(h)
    \/ \E h \in Handlers : StepCommit(h)
    \/ \E h \in Handlers : StepPersist(h)
    \/ \E h \in Handlers : StepSetStatus(h)
    \/ \E h \in Handlers : StepFinally(h)

\* ------------------------------------------------------------------------
\* Process restart and startup recovery (storage.py)
\* ------------------------------------------------------------------------

\* _mark_interrupted_runs: UPDATE runs SET status = 'failed',
\* ended_at = COALESCE(ended_at, now) WHERE status = 'running' AND
\* ended_at IS NULL.
Interrupted == regStatus = "running" /\ ~regEnded

\* The server process dies and comes up again: its threads, the unflushed
\* part of the trace handle and the in-memory step contexts are gone, and
\* the first _ensure_conn of the new process runs _mark_interrupted_runs.
\* (Restarts are explored while the trace is shorter than MaxSteps: the step
\* context rebuilt from the registry lets a run append without limit.)
Restart ==
    /\ Len(trace) < MaxSteps
    /\ regStatus' = IF Interrupted THEN "failed" ELSE regStatus
    /\ regEnded' = (regEnded \/ Interrupted)
    /\ fhBuf' = <<>>
    /\ bpc' = "gone"
    /\ ctx' = NoCtx
    /\ hpc' = [h \in Handlers |-> "idle"]
    /\ hreq' = [h \in Handlers |-> NoReq]
    /\ bhist' = [bhist EXCEPT !.refused = FALSE]
    /\ UNCHANGED <<backend, maxSteps, regStep, regStarted, regSummary, trace,
                   bstep>>
    /\ UNCHANGED <<now, lastResp>>
    /\ UNCHANGED <<jobVars, auxVars>>

\* ------------------------------------------------------------------------
\* run_once, event by event (runner.py), and public_replay (server.py)
\* ------------------------------------------------------------------------
\* The same loop as above, followed through the events it publishes: each
\* publish_event appends the event to the iteration's "events" list and
\* hands it to registry.append_event, which pushes it to the live queue.

\* The places of an iteration that call the backend under call_with_retry.
CallSites == {"observe", "apply", "advance"}

\* One invocation of func() inside call_with_retry. The mock backend never
\* raises DFHackError.
AttemptOutcomes(b) == IF b = "dfhack" THEN {"ok", "dferror"} ELSE {"ok"}

EvIdle == [site |-> "idle", phase |-> "try1"]
At(site, phase) == [site |-> site, phase |-> phase]

\* publish_event, for the event types ts in order.
PublishEvent(ts) ==
    /\ evs' = evs \o ts
    /\ live' = live \o ts

HandleDfhackFailureSilent == <<>>

\* _handle_dfhack_failure: the events it publishes.
HandleDfhackFailure == <<"stderr">>

\* The events ts are published, fh.write(json.dumps(record_line)) writes the
\* record with "events": events, and the loop goes to its next value, or is
\* exhausted.
EvWriteRecord(ts) ==
    /\ evTrace' = Append(evTrace, evs \o ts)
    /\ live' = live \o ts
    /\ estep' = estep + 1
    /\ evs' = <<>>
    /\ epc' = IF estep + 1 < maxSteps THEN At("observe", "try1")
              ELSE At("exit", "try1")

\* What follows a call site whose func() returned.
EvSucceed(site) ==
    IF site = "observe" THEN
         /\ PublishEvent(<<"state">>)
         /\ epc' = At("decide", "try1")
         /\ UNCHANGED <<estep, evTrace>>
    ELSE IF site = "apply" THEN
         /\ PublishEvent(<<"execute">>)
         /\ epc' = At("advance", "try1")
         /\ UNCHANGED <<estep, evTrace>>
    ELSE EvWriteRecord(<<"advance", "metrics", "score">>)

\* trace_path.open("w") and the first value of the loop variable.
EvBegin ==
    /\ epc = EvIdle
    /\ epc' = At("observe", "try1")
    /\ estep' = 0
    /\ evs' = <<>>
    /\ evTrace' = <<>>
    /\ UNCHANGED <<live, calls>>
    /\ UNCHANGED <<replayVars, queueVars, storeVars, shareVars, limiterVars>>
    /\ UNCHANGED <<jobVars, runVars, stepVars, lateVars>>

\* call_with_retry: the first func().
EvCallFirst(site) ==
    /\ epc = At(site, "try1")
    /\ calls' = 1
    /\ \E o \in AttemptOutcomes(backend) :
          IF o = "ok"
          THEN EvSucceed(site)
          ELSE /\ epc' = At(site, "fail1")
               /\ UNCHANGED <<estep, evs, evTrace, live>>
    /\ UNCHANGED <<replayVars, queueVars, storeVars, shareVars, limiterVars>>
    /\ UNCHANGED <<jobVars, runVars, stepVars, lateVars>>

\* except DFHackError as exc: _handle_dfhack_failure("<label> failed").
EvReportFirst(site) ==
    /\ epc = At(site, "fail1")
    /\ PublishEvent(HandleDfhackFailure)
    /\ epc' = At(site, "try2")
    /\ UNCHANGED <<estep, evTrace, calls>>
    /\ UNCHANGED <<replayVars, queueVars, storeVars, shareVars, limiterVars>>
    /\ UNCHANGED <<jobVars, runVars, stepVars, lateVars>>

\* call_with_retry: the second func().
EvCallSecond(site) ==
    /\ epc = At(site, "try2")
    /\ calls' = calls + 1
    /\ \E o \in AttemptOutcomes(backend) :
          IF o = "ok"
          THEN EvSucceed(site)
          ELSE /\ epc' = At(site, "fail2")
               /\ UNCHANGED <<estep, evs, evTrace, live>>
    /\ UNCHANGED <<replayVars, queueVars, storeVars, shareVars, limiterVars>>
    /\ UNCHANGED <<jobVars, runVars, stepVars, lateVars>>

\* except DFHackError as final_exc: _handle_dfhack_failure("<label> failed
\* again"); raise. The caller's except DFHackError sets the run failed and
\* breaks out of the loop.
EvReportSecond(site) ==
    /\ epc = At(site, "fail2")
    /\ PublishEvent(HandleDfhackFailure)
    /\ epc' = At("exit", "try1")
    /\ UNCHANGED <<estep, evTrace, calls>>
    /\ UNCHANGED <<replayVars, queueVars, storeVars, shareVars, limiterVars>>
    /\ UNCHANGED <<jobVars, runVars, stepVars, lateVars>>

\* agent.decide and the checks of its output, up to the validation event.
EvDecide ==
    /\ epc = At("decide", "try1")
    /\ \E a \in AgentOutputs :
          IF a = "error"
          THEN /\ epc' = At("raised", "try1")
               /\ UNCHANGED <<estep, evs, evTrace, live>>
          ELSE IF a \in {"nondict", "crash"}
          THEN /\ PublishEvent(<<"action">>)
               /\ epc' = At("raised", "try1")
               /\ UNCHANGED <<estep, evTrace>>
          ELSE IF a = "valid"
          THEN /\ PublishEvent(<<"action", "validation">>)
               /\ epc' = At("apply", "try1")
               /\ UNCHANGED <<estep, evTrace>>
          ELSE EvWriteRecord(<<"action", "validation">>)
    /\ UNCHANGED calls
    /\ UNCHANGED <<replayVars, queueVars, storeVars, shareVars, limiterVars>>
    /\ UNCHANGED <<jobVars, runVars, stepVars, lateVars>>

\* After the loop: set_status(completed), summarize, set_summary, and
\* registry.append_event(run_id, {"t": "score", ...}).
EvFinish ==
    /\ epc = At("exit", "try1")
    /\ live' = Append(live, "score")
    /\ epc' = At("returned", "try1")
    /\ UNCHANGED <<estep, evs, evTrace, calls>>
    /\ UNCHANGED <<replayVars, queueVars, storeVars, shareVars, limiterVars>>
    /\ UNCHANGED <<jobVars, runVars, stepVars, lateVars>>

EvRunNext ==
    \/ EvBegin
    \/ \E site \in CallSites : EvCallFirst(site)
    \/ \E site \in CallSites : EvReportFirst(site)
    \/ \E site \in CallSites : EvCallSecond(site)
    \/ \E site \in CallSites : EvReportSecond(site)
    \/ EvDecide
    \/ EvFinish

EvInit ==
    /\ epc = EvIdle
    /\ estep = 0
    /\ evs = <<>>
    /\ evTrace = <<>>
    /\ live = <<>>
    /\ calls = 0

\* The run function is over: it returned or it raised.
EvFinished == epc.site \in {"returned", "raised"}

\* ---- public_replay ----

OnDisconnectClose == "closed"

\* "if await request.is_disconnected(): break" leaves the for loop; the
\* statement after the loop yields the end frame.
OnDisconnect == "end"

\* The records ndjson_iter yields, each taken as record.get("events") or [].
RECURSIVE Flatten(_)
Flatten(recs) ==
    IF recs = <<>> THEN <<>> ELSE Head(recs) \o Flatten(Tail(recs))

\* GET /public/runs/{token}/events/replay on the trace of a run whose
\* run function is over.
ReplayOpen ==
    /\ rpc = "idle"
    /\ EvFinished
    /\ rpc' = "record"
    /\ rrec' = 1
    /\ rev' = 1
    /\ frames' = <<>>
    /\ UNCHANGED clientGone
    /\ UNCHANGED <<runEvVars, queueVars, storeVars, shareVars, limiterVars>>
    /\ UNCHANGED <<jobVars, runVars, stepVars, lateVars>>

\* "for record in ndjson_iter(path)": the next record, or the end of file;
\* the disconnect test at the top of the loop body.
ReplayRecord ==
    /\ rpc = "record"
    /\ IF rrec > Len(evTrace) THEN rpc' = "end"
       ELSE IF clientGone THEN rpc' = OnDisconnect
       ELSE rpc' = "events"
    /\ rev' = 1
    /\ UNCHANGED <<rrec, frames, clientGone>>
    /\ UNCHANGED <<runEvVars, queueVars, storeVars, shareVars, limiterVars>>
    /\ UNCHANGED <<jobVars, runVars, stepVars, lateVars>>

\* "for event in events: yield sse_event(...)", then the sleep.
ReplayEmit ==
    /\ rpc = "events"
    /\ IF rev > Len(evTrace[rrec])
       THEN /\ rpc' = "record"
            /\ rrec' = rrec + 1
            /\ UNCHANGED <<rev, frames>>
       ELSE /\ frames' = Append(frames, evTrace[rrec][rev])
            /\ rev' = rev + 1
            /\ UNCHANGED <<rpc, rrec>>
    /\ UNCHANGED clientGone
    /\ UNCHANGED <<runEvVars, queueVars, storeVars, shareVars, limiterVars>>
    /\ UNCHANGED <<jobVars, runVars, stepVars, lateVars>>

\* yield sse_event("end", {"run_id": share.run_id}); the generator returns.
ReplayEnd ==
    /\ rpc = "end"
    /\ frames' = Append(frames, "end")
    /\ rpc' = "closed"
    /\ UNCHANGED <<rrec, rev, clientGone>>
    /\ UNCHANGED <<runEvVars, queueVars, storeVars, shareVars, limiterVars>>
    /\ UNCHANGED <<jobVars, runVars, stepVars, lateVars>>

\* The client of the replay goes away while the stream is open.
ClientDisconnect ==
    /\ rpc \in {"record", "events"}
    /\ ~clientGone
    /\ clientGone' = TRUE
    /\ UNCHANGED <<rpc, rrec, rev, frames>>
    /\ UNCHANGED <<runEvVars, queueVars, storeVars, shareVars, limiterVars>>
    /\ UNCHANGED <<jobVars, runVars, stepVars, lateVars>>

ReplayNext ==
    \/ ReplayOpen
    \/ ReplayRecord
    \/ ReplayEmit
    \/ ReplayEnd
    \/ ClientDisconnect

ReplayInit ==
    /\ rpc = "idle"
    /\ rrec = 1
    /\ rev = 1
    /\ frames = <<>>
    /\ clientGone = FALSE

\* ------------------------------------------------------------------------
\* The live event queue of a run (storage.py) and its subscribers (sse.py)
\* ------------------------------------------------------------------------
\* Events are told apart by their emission number.

Subscribers == 1..NumSubs

PushKeepOldest(q, e) ==
    IF Len(q) >= QUEUE_MAXSIZE THEN q ELSE Append(q, e)

\* append_event's push(): put_nowait; on QueueFull get_nowait, which takes
\* the oldest entry out, and put_nowait again.
Push(q, e) ==
    IF Len(q) >= QUEUE_MAXSIZE THEN Append(Tail(q), e) ELSE Append(q, e)

QueueInit ==
    /\ queue = <<>>
    /\ nextEv = 1
    /\ subPc = [s \in Subscribers |-> "off"]
    /\ subGot = [s \in Subscribers |-> <<>>]
    /\ subFrom = [s \in Subscribers |-> 0]

\* RunRegistry.append_event for the run's next event; at most "limit"
\* events are emitted.
AppendEvent(limit) ==
    /\ nextEv <= limit
    /\ queue' = Push(queue, nextEv)
    /\ nextEv' = nextEv + 1
    /\ UNCHANGED <<subPc, subGot, subFrom>>
    /\ UNCHANGED <<runEvVars, replayVars, storeVars, shareVars, limiterVars>>
    /\ UNCHANGED <<jobVars, runVars, stepVars, lateVars>>

\* GET /runs/{run_id}/events/stream: get_queue hands the run's queue to
\* stream_queue.
SubAttach(s) ==
    /\ subPc[s] = "off"
    /\ subPc' = [subPc EXCEPT ![s] = "on"]
    /\ subFrom' = [subFrom EXCEPT ![s] = nextEv]
    /\ UNCHANGED <<queue, nextEv, subGot>>
    /\ UNCHANGED <<runEvVars, replayVars, storeVars, shareVars, limiterVars>>
    /\ UNCHANGED <<jobVars, runVars, stepVars, lateVars>>

\* stream_queue: "item = await queue.get()" returns and the frame is
\* yielded to this subscriber. (At most MaxEvents frames per subscriber.)
SubReceive(s) ==
    /\ subPc[s] = "on"
    /\ queue # <<>>
    /\ Len(subGot[s]) < MaxEvents
    /\ subGot' = [subGot EXCEPT ![s] = Append(@, Head(queue))]
    /\ queue' = Tail(queue)
    /\ UNCHANGED <<nextEv, subPc, subFrom>>
    /\ UNCHANGED <<runEvVars, replayVars, storeVars, shareVars, limiterVars>>
    /\ UNCHANGED <<jobVars, runVars, stepVars, lateVars>>

\* stream_queue: request.is_disconnected() is true at the top of the loop.
SubDetach(s) ==
    /\ subPc[s] = "on"
    /\ subPc' = [subPc EXCEPT ![s] = "gone"]
    /\ UNCHANGED <<queue, nextEv, subGot, subFrom>>
    /\ UNCHANGED <<runEvVars, replayVars, storeVars, shareVars, limiterVars>>
    /\ UNCHANGED <<jobVars, runVars, stepVars, lateVars>>

\* A run that emits a few events while subscribers come and go.
StreamNext ==
    \/ AppendEvent(MaxEvents)
    \/ \E s \in Subscribers : SubAttach(s)
    \/ \E s \in Subscribers : SubReceive(s)
    \/ \E s \in Subscribers : SubDetach(s)

\* A run that emits more events than its queue holds, and one subscriber
\* that attaches once the queue is full.
QueueNext ==
    \/ AppendEvent(QUEUE_MAXSIZE + MaxEvents)
    \/ (Len(queue) = QUEUE_MAXSIZE /\ SubAttach(1))
    \/ SubReceive(1)

\* ------------------------------------------------------------------------
\* append_event and the event loop bound to the run (storage.py)
\* ------------------------------------------------------------------------

LoopInit ==
    /\ loopState = "unbound"
    /\ scheduled = <<>>

\* bind_loop(run_id, loop), with a loop that is running or not.
BindLoop ==
    /\ loopState = "unbound"
    /\ loopState' \in {"stopped", "running"}
    /\ UNCHANGED <<scheduled, queueVars, ctlVars, tickVars>>
    /\ UNCHANGED <<runEvVars, replayVars, storeVars, shareVars, limiterVars>>
    /\ UNCHANGED <<jobVars, runVars, stepVars>>

\* The bound loop starts to run (run_forever, run_until_complete).
LoopStart ==
    /\ loopState = "stopped"
    /\ loopState' = "running"
    /\ UNCHANGED <<scheduled, queueVars, ctlVars, tickVars>>
    /\ UNCHANGED <<runEvVars, replayVars, storeVars, shareVars, limiterVars>>
    /\ UNCHANGED <<jobVars, runVars, stepVars>>

\* The bound loop stops running; callbacks it has not run stay ready.
LoopStop ==
    /\ loopState = "running"
    /\ loopState' = "stopped"
    /\ UNCHANGED <<scheduled, queueVars, ctlVars, tickVars>>
    /\ UNCHANGED <<runEvVars, replayVars, storeVars, shareVars, limiterVars>>
    /\ UNCHANGED <<jobVars, runVars, stepVars>>

\* The end of append_event: "if loop and loop.is_running():
\* loop.call_soon_threadsafe(push) else: push()".
Deliver(e) ==
    IF loopState = "running"
    THEN /\ scheduled' = Append(scheduled, e)
         /\ UNCHANGED queue
    ELSE /\ queue' = Push(queue, e)
         /\ UNCHANGED scheduled

\* RunRegistry.append_event for the run's next event, by the one producer.
AppendEventVia ==
    /\ nextEv <= MaxEvents
    /\ Deliver(nextEv)
    /\ nextEv' = nextEv + 1
    /\ UNCHANGED <<loopState, subPc, subGot, subFrom, ctlVars, tickVars>>
    /\ UNCHANGED <<runEvVars, replayVars, storeVars, shareVars, limiterVars>>
    /\ UNCHANGED <<jobVars, runVars, stepVars>>

\* The running loop runs the oldest callback handed to it: push().
LoopRunCallback ==
    /\ loopState = "running"
    /\ scheduled # <<>>
    /\ queue' = Push(queue, Head(scheduled))
    /\ scheduled' = Tail(scheduled)
    /\ UNCHANGED <<loopState, nextEv, subPc, subGot, subFrom, ctlVars, tickVars>>
    /\ UNCHANGED <<runEvVars, replayVars, storeVars, shareVars, limiterVars>>
    /\ UNCHANGED <<jobVars, runVars, stepVars>>

\* One producer, the loop, and one subscriber reading the queue.
LoopNext ==
    \/ BindLoop
    \/ LoopStart
    \/ LoopStop
    \/ AppendEventVia
    \/ LoopRunCallback
    \/ SubAttach(1)
    \/ SubReceive(1)

\* ------------------------------------------------------------------------
\* advance_ticks_exact_external (dfhack_backend.py)
\* ------------------------------------------------------------------------
MAX_WANT == 1000         \* want = min(want, 1000)
MIN_SAFETY_MS == 10000   \* safety_ms = max(10000, want * 200)
MS_PER_TICK == 200
POLL_SLEEP_MS == 50      \* time.sleep(0.05)

\* The "ticks" arguments: not an integer, not positive, small, at the cap
\* and above it.
BadTicks == 0 - 1
TickInputs == {BadTicks, 0, 1, 2, MAX_WANT, MAX_WANT + 1}

\* How far cur_year_tick moves between two reads: not at all (the game is
\* paused again, or slow), by one tick, or past any request.
TickJumps == {0, 1, MAX_WANT}

\* How long one round of the loop takes on the monotonic clock: the sleep,
\* or the sleep and a slow tick_read.
PollDurations == {POLL_SLEEP_MS, POLL_SLEEP_MS + MIN_SAFETY_MS}

\* "int(ticks)" raised, or "want <= 0".
InvalidTicks(ticks) == ticks = BadTicks \/ ticks <= 0

\* want = min(int(ticks), 1000).
Want(ticks) == Min(ticks, MAX_WANT)

\* safety_ms = max(10000, want * 200).
SafetyMs(want) == Max(MIN_SAFETY_MS, want * MS_PER_TICK)

TimedOutNever(elapsed_ms, want) == FALSE

\* "if elapsed_ms > safety_ms".
TimedOut(elapsed_ms, want) == elapsed_ms > SafetyMs(want)

\* The clock is followed until the budget is exceeded, and no further.
ClockCap(want) == SafetyMs(want) + POLL_SLEEP_MS

NoReqA == [ticks |-> 0, repause |-> FALSE, want |-> 0]
NoLoc == [ok |-> TRUE, error |-> "none", timed_out |-> FALSE,
          advanced |-> 0, elapsed_ms |-> 0]
NoRes == [ok |-> FALSE, error |-> "none", timeout |-> FALSE, returned |-> FALSE]
NoHist == [exit |-> "none", repaused |-> FALSE, small |-> 0, odd |-> FALSE]

\* The dict returned: "ok", "error" and "timeout" of its keys.
Result(ok, error, timeout) ==
    [ok |-> ok, error |-> error, timeout |-> timeout, returned |-> TRUE]

AdvInit ==
    /\ apc = "idle"
    /\ areq = NoReqA
    /\ aloc = NoLoc
    /\ ares = NoRes
    /\ ahist = NoHist

\* The call, up to "want = min(want, 1000)".
AdvCall ==
    /\ apc = "idle"
    /\ \E ticks \in TickInputs, repause \in BOOLEAN :
         IF InvalidTicks(ticks)
         THEN /\ areq' = [ticks |-> ticks, repause |-> repause, want |-> 0]
              /\ ares' = Result(FALSE, "invalid_ticks", FALSE)
              /\ apc' = "done"
         ELSE /\ areq' = [ticks |-> ticks, repause |-> repause,
                          want |-> Want(ticks)]
              /\ apc' = "prepare"
              /\ UNCHANGED ares
    /\ UNCHANGED <<aloc, ahist>>
    /\ UNCHANGED <<ctlVars, loopVars>>
    /\ UNCHANGED <<runEvVars, replayVars, queueVars, storeVars, shareVars,
                   limiterVars>>
    /\ UNCHANGED <<jobVars, runVars, stepVars>>

\* read_pause_state, tick_read, _enable_nopause and set_paused(False): each
\* DFHackError returns at once, with no pause issued.
PrepareOutcomes ==
    {"ok", "read_pause_failed", "tick_read_failed", "resume_failed"}

AdvPrepare ==
    /\ apc = "prepare"
    /\ \E o \in PrepareOutcomes :
         IF o = "ok"
         THEN /\ apc' = "poll"
              /\ aloc' = NoLoc
              /\ UNCHANGED ares
         ELSE /\ apc' = "done"
              /\ ares' = Result(FALSE, o, FALSE)
              /\ UNCHANGED aloc
    /\ UNCHANGED <<areq, ahist>>
    /\ UNCHANGED <<ctlVars, loopVars>>
    /\ UNCHANGED <<runEvVars, replayVars, queueVars, storeVars, shareVars,
                   limiterVars>>
    /\ UNCHANGED <<jobVars, runVars, stepVars>>

\* One round of "while True": sleep, tick_read, the two tests. (Jumps of one
\* tick are followed MaxSmallJumps times.)
AdvPoll ==
    /\ apc = "poll"
    /\ \E d \in PollDurations, j \in TickJumps, readOk \in BOOLEAN :
         LET elapsed == Min(aloc.elapsed_ms + d, ClockCap(areq.want))
             advanced == Min(aloc.advanced + j, MAX_WANT)
         IN  /\ (j = 1 => ahist.small < MaxSmallJumps)
             /\ IF ~readOk
                THEN /\ aloc' = [aloc EXCEPT !.ok = FALSE,
                                             !.error = "tick_read_failed",
                                             !.elapsed_ms = elapsed]
                     /\ ahist' = [ahist EXCEPT !.exit = "read_failed",
                                               !.odd = ~@]
                     /\ apc' = "finally"
                ELSE IF advanced >= areq.want
                THEN /\ aloc' = [aloc EXCEPT !.advanced = advanced,
                                             !.elapsed_ms = elapsed]
                     /\ ahist' = [ahist EXCEPT !.exit = "advanced",
                                               !.odd = ~@]
                     /\ apc' = "finally"
                ELSE IF TimedOut(elapsed, areq.want)
                THEN /\ aloc' = [aloc EXCEPT !.advanced = advanced,
                                             !.elapsed_ms = elapsed,
                                             !.timed_out = TRUE]
                     /\ ahist' = [ahist EXCEPT !.exit = "timeout",
                                               !.odd = ~@]
                     /\ apc' = "finally"
                ELSE /\ aloc' = [aloc EXCEPT !.advanced = advanced,
                                             !.elapsed_ms = elapsed]
                     /\ ahist' = [ahist EXCEPT
                                    !.small = IF j = 1 THEN @ + 1 ELSE @,
                                    !.odd = ~@]
                     /\ apc' = "poll"
    /\ UNCHANGED <<areq, ares>>
    /\ UNCHANGED <<ctlVars, loopVars>>
    /\ UNCHANGED <<runEvVars, replayVars, queueVars, storeVars, shareVars,
                   limiterVars>>
    /\ UNCHANGED <<jobVars, runVars, stepVars>>

\* finally: "if repause: set_paused(True)", whose DFHackError gives ok =
\* False and error = error or "repause_failed"; then the result is built.
AdvFinally ==
    /\ apc = "finally"
    /\ \E pauseOk \in BOOLEAN :
         LET failed == areq.repause /\ ~pauseOk
             error == IF failed /\ aloc.error = "none"
                      THEN "repause_failed" ELSE aloc.error
             ok == aloc.ok /\ ~failed
         IN  /\ (~areq.repause => pauseOk)
             /\ ares' = Result(ok /\ error = "none", error, aloc.timed_out)
             /\ ahist' = [ahist EXCEPT !.repaused = areq.repause]
    /\ apc' = "done"
    /\ UNCHANGED <<areq, aloc>>
    /\ UNCHANGED <<ctlVars, loopVars>>
    /\ UNCHANGED <<runEvVars, replayVars, queueVars, storeVars, shareVars,
                   limiterVars>>
    /\ UNCHANGED <<jobVars, runVars, stepVars>>

AdvNext ==
    \/ AdvCall
    \/ AdvPrepare
    \/ AdvPoll
    \/ AdvFinally

\* ------------------------------------------------------------------------
\* The runs table of the registry (storage.py)
\* ------------------------------------------------------------------------
\* Two run ids; an id is unknown to the registry until create inserts its row.
RunIds == {"r1", "r2"}

NoRow == [status |-> "none"]
StoreSteps == {0, 1}

\* create(backend=...): the backend each run is created with.
BackendOf(id) == IF id = "r1" THEN "mock" ELSE "dfhack"

\* INSERT INTO runs ...: status 'pending', step 0, no timestamps.
NewRow(id) ==
    [status |-> "pending", step |-> 0, started_at |-> FALSE,
     ended_at |-> FALSE, backend |-> BackendOf(id)]

UpdatedRowOrZero(row, status, step, started_at, ended_at) ==
    [row EXCEPT !.status = IF status = Keep THEN @ ELSE status,
                !.step = IF step = NoStep THEN 0 ELSE step,
                !.started_at = (@ \/ started_at),
                !.ended_at = (@ \/ ended_at)]

\* The row after "UPDATE runs SET <the fields passed> WHERE run_id = ?".
UpdatedRow(row, status, step, started_at, ended_at) ==
    [row EXCEPT !.status = IF status = Keep THEN @ ELSE status,
                !.step = IF step = NoStep THEN @ ELSE step,
                !.started_at = (@ \/ started_at),
                !.ended_at = (@ \/ ended_at)]

RecoveredRowAnyRunning(row) ==
    IF row # NoRow /\ row.status = "running"
    THEN [row EXCEPT !.status = "failed", !.ended_at = TRUE]
    ELSE row

\* The row after _mark_interrupted_runs: SET status = 'failed', ended_at =
\* COALESCE(ended_at, now) WHERE status = 'running' AND ended_at IS NULL.
RecoveredRow(row) ==
    IF row # NoRow /\ row.status = "running" /\ ~row.ended_at
    THEN [row EXCEPT !.status = "failed", !.ended_at = TRUE]
    ELSE row

NoArgs == [status |-> Keep, step |-> NoStep, started_at |-> FALSE,
           ended_at |-> FALSE]

NoOp == [op |-> "none", id |-> "none", marked |-> {}, args |-> NoArgs]

StoreInit ==
    /\ rows = [r \in RunIds |-> NoRow]
    /\ storeLast = NoOp

\* RunRegistry.create with a fresh run id.
StoreCreate(id) ==
    /\ rows[id] = NoRow
    /\ rows' = [rows EXCEPT ![id] = NewRow(id)]
    /\ storeLast' = [op |-> "create", id |-> id, marked |-> {},
                     args |-> NoArgs]
    /\ UNCHANGED <<runEvVars, replayVars, queueVars, shareVars, limiterVars>>
    /\ UNCHANGED <<jobVars, runVars, stepVars, lateVars>>

\* RunRegistry.set_status(run_id, status=, step=, started_at=, ended_at=).
\* With nothing passed it returns early; for an id without row the UPDATE
\* matches nothing.
StoreSetStatus(id, status, step, started_at, ended_at) ==
    /\ rows' = IF rows[id] = NoRow THEN rows
               ELSE [rows EXCEPT ![id] =
                        UpdatedRow(@, status, step, started_at, ended_at)]
    /\ storeLast' = [op |-> "set_status", id |-> id, marked |-> {},
                     args |-> [status |-> status, step |-> step,
                               started_at |-> started_at,
                               ended_at |-> ended_at]]
    /\ UNCHANGED <<runEvVars, replayVars, queueVars, shareVars, limiterVars>>
    /\ UNCHANGED <<jobVars, runVars, stepVars, lateVars>>

StoreSetStatusAny ==
    \E id \in RunIds, status \in Statuses \cup {Keep},
       step \in StoreSteps \cup {NoStep},
       started_at \in BOOLEAN, ended_at \in BOOLEAN :
        StoreSetStatus(id, status, step, started_at, ended_at)

\* A new process opens the store: the first _ensure_conn connects, ensures
\* the schema and runs _mark_interrupted_runs.
StoreOpen ==
    /\ rows' = [r \in RunIds |-> RecoveredRow(rows[r])]
    /\ storeLast' = [op |-> "open", id |-> "none",
                     marked |-> {r \in RunIds : RecoveredRow(rows[r]) # rows[r]},
                     args |-> NoArgs]
    /\ UNCHANGED <<runEvVars, replayVars, queueVars, shareVars, limiterVars>>
    /\ UNCHANGED <<jobVars, runVars, stepVars, lateVars>>

StoreNext ==
    \/ \E id \in RunIds : StoreCreate(id)
    \/ StoreSetStatusAny
    \/ StoreOpen

\* ------------------------------------------------------------------------
\* Share tokens (storage.py) and the public endpoints (server.py)
\* ------------------------------------------------------------------------
Tokens == {"t1"}
Scopes == {"live", "replay", "export"}
NoScope == "none"      \* _require_share(token) without scope
NoTtl == 0 - 1         \* ttl_seconds=None
NoExpiry == <<>>       \* expires_at IS NULL
NoShare == [run_id |-> "none"]
TtlInputs == {NoTtl, 0, 1}

\* The scope each public endpoint passes to _require_share.
RequiredScope ==
    [run |-> NoScope, stream |-> "live", replay |-> "replay",
     export |-> "export", screenshot |-> "live"]
Endpoints == DOMAIN RequiredScope

\* datetime.utcnow(), as whole seconds and a fraction in tenths.
UtcStart == [s |-> 0, us |-> 0]
UtcIndex(t) == 2 * t.s + (IF t.us = 0 THEN 0 ELSE 1)
UtcLater(a, b) == a.s > b.s \/ (a.s = b.s /\ a.us > b.us)

\* datetime.isoformat(): the fixed-width date and time to the second, then
\* the fraction, which is left out when it is zero.
IsoFormat(t) == IF t.us = 0 THEN <<t.s>> ELSE <<t.s, t.us>>

\* SQLite's comparison of two TEXT values, a > b: the first differing
\* element decides, and a proper prefix is the smaller.
RECURSIVE TextGreater(_, _)
TextGreater(a, b) ==
    IF a = <<>> THEN FALSE
    ELSE IF b = <<>> THEN TRUE
    ELSE IF Head(a) # Head(b) THEN Head(a) > Head(b)
    ELSE TextGreater(Tail(a), Tail(b))

\* create_share: "scope or {live, replay, export}".
ResolvedScope(scope) == IF scope = {} THEN Scopes ELSE scope

\* get_share: SELECT ... WHERE token = ? AND (expires_at IS NULL OR
\* expires_at > now); None when no row matches.
GetShare(tok) ==
    IF /\ shares[tok] # NoShare
       /\ \/ shares[tok].expires_at = NoExpiry
          \/ TextGreater(shares[tok].expires_at, IsoFormat(utc))
    THEN shares[tok]
    ELSE NoShare

ScopeAllowsAny(required, scope) == TRUE

\* _require_share: "if scope and scope not in share.scope" raises 404.
ScopeAllows(required, scope) == required = NoScope \/ required \in scope

\* The expiry time of the token has passed.
Expired(tok) ==
    /\ shares[tok] # NoShare
    /\ shares[tok].expires_at # NoExpiry
    /\ UtcLater(utc, shares[tok].expires)

NoAccess ==
    [token |-> "none", endpoint |-> "none", granted |-> FALSE,
     expired |-> FALSE]

ShareInit ==
    /\ shares = [tok \in Tokens |-> NoShare]
    /\ utc = UtcStart
    /\ lastAccess = NoAccess

\* Time passes.
UtcTick ==
    /\ UtcIndex(utc) < MaxUtcTicks
    /\ utc' = IF utc.us = 0 THEN [utc EXCEPT !.us = 5]
              ELSE [s |-> utc.s + 1, us |-> 0]
    /\ UNCHANGED <<shares, lastAccess>>
    /\ UNCHANGED <<runEvVars, replayVars, queueVars, storeVars, limiterVars>>
    /\ UNCHANGED <<jobVars, runVars, stepVars, lateVars>>

\* RunRegistry.create_share for a run that has a row; the token is new.
CreateShare(tok, id, scope, ttl) ==
    /\ shares[tok] = NoShare
    /\ rows[id] # NoRow
    /\ shares' = [shares EXCEPT ![tok] =
          [run_id |-> id,
           scope |-> ResolvedScope(scope),
           expires_at |-> IF ttl = NoTtl THEN NoExpiry
                          ELSE IsoFormat([utc EXCEPT !.s = @ + ttl]),
           expires |-> IF ttl = NoTtl THEN UtcStart
                       ELSE [utc EXCEPT !.s = @ + ttl]]]
    /\ UNCHANGED <<utc, lastAccess>>
    /\ UNCHANGED <<runEvVars, replayVars, queueVars, storeVars, limiterVars>>
    /\ UNCHANGED <<jobVars, runVars, stepVars, lateVars>>

\* A request to a public endpoint: _require_share(token, scope=...).
PublicAccess(tok, ep) ==
    /\ lastAccess' =
          [token |-> tok, endpoint |-> ep,
           granted |-> /\ GetShare(tok) # NoShare
                       /\ ScopeAllows(RequiredScope[ep], GetShare(tok).scope),
           expired |-> Expired(tok)]
    /\ UNCHANGED <<shares, utc>>
    /\ UNCHANGED <<runEvVars, replayVars, queueVars, storeVars, limiterVars>>
    /\ UNCHANGED <<jobVars, runVars, stepVars, lateVars>>

ShareNext ==
    \/ StoreCreate("r1")
    \/ UtcTick
    \/ \E tok \in Tokens, scope \in SUBSET Scopes, ttl \in TtlInputs :
          CreateShare(tok, "r1", scope, ttl)
    \/ \E tok \in Tokens, ep \in Endpoints : PublicAccess(tok, ep)

\* ------------------------------------------------------------------------
\* RateLimiter and _TokenBucket (api/rate_limit.py)
\* ------------------------------------------------------------------------
\* Time is counted in ticks of 0.1 s and tokens in TokenUnit-ths of a token;
\* a refill rate is a number of such units per tick. Arithmetic is exact:
\* the rounding of the floats the code computes with is not modelled.
Keys == {"k1", "k2"}
Capacities == 1..MaxCap
Rates == {0, 1, 2 * TokenUnit}
NoTime == 0 - 1
NoBucket == [capacity |-> 0]
NoRetry == [num |-> 0, den |-> 1]

NewBucketEmpty(capacity, rate, t) ==
    [capacity |-> capacity, tokens |-> 0, refill_per_s |-> rate,
     updated_at |-> t, born |-> t, calls |-> 0, refusedAt |-> NoTime]

\* _TokenBucket(capacity=float(capacity), tokens=float(capacity),
\* refill_per_s=float(refill_per_s), updated_at=now). "born", "calls" (the
\* allow calls made at the time it was created) and "refusedAt" (the time of
\* the earliest refusal since the latest grant) are history.
NewBucket(capacity, rate, t) ==
    [capacity |-> capacity, tokens |-> capacity * TokenUnit,
     refill_per_s |-> rate, updated_at |-> t, born |-> t, calls |-> 0,
     refusedAt |-> NoTime]

RefillUncapped(b, t) ==
    IF Max(0, t - b.updated_at) <= 0 THEN b
    ELSE [b EXCEPT !.tokens = @ + (t - b.updated_at) * b.refill_per_s,
                   !.updated_at = t]

\* _TokenBucket.refill
Refill(b, t) ==
    IF Max(0, t - b.updated_at) <= 0 THEN b
    ELSE [b EXCEPT !.tokens = Min(b.capacity * TokenUnit,
                                  @ + (t - b.updated_at) * b.refill_per_s),
                   !.updated_at = t]

RetryAfterNoFloor(missing, rate) ==
    IF rate > 0 THEN [num |-> missing, den |-> rate]
    ELSE [num |-> NO_REFILL_RETRY, den |-> 1]

\* max(0.1, missing / refill_per_s), 60.0 for a bucket that never refills;
\* in ticks, as a fraction.
RetryAfter(missing, rate) ==
    IF rate > 0
    THEN IF missing >= MIN_RETRY * rate
         THEN [num |-> missing, den |-> rate]
         ELSE [num |-> MIN_RETRY, den |-> 1]
    ELSE [num |-> NO_REFILL_RETRY, den |-> 1]

\* _TokenBucket.take(1.0, now): the bucket afterwards and the result.
Take(b, t) ==
    LET rb == Refill(b, t)
    IN  IF rb.tokens >= TokenUnit
        THEN [bucket |-> [rb EXCEPT !.tokens = @ - TokenUnit,
                                    !.refusedAt = NoTime],
              ok |-> TRUE, retry |-> NoRetry]
        ELSE [bucket |-> [rb EXCEPT !.refusedAt =
                                       IF @ = NoTime THEN t ELSE @],
              ok |-> FALSE,
              retry |-> RetryAfter(TokenUnit - rb.tokens, rb.refill_per_s)]

NeedsNewBucketCapacityOnly(existing, capacity, rate) ==
    existing = NoBucket \/ existing.capacity # capacity

\* "existing is None or existing.capacity != float(capacity) or
\* existing.refill_per_s != refill_per_s"
NeedsNewBucket(existing, capacity, rate) ==
    \/ existing = NoBucket
    \/ existing.capacity # capacity
    \/ existing.refill_per_s # rate

NoCall ==
    [key |-> "none", capacity |-> 0, rate |-> 0, at |-> 0, ok |-> FALSE,
     retry |-> NoRetry, before |-> 0, since |-> NoTime]

LimiterInit ==
    /\ buckets = [k \in Keys |-> NoBucket]
    /\ mono = 0
    /\ rlLast = NoCall

\* time.monotonic() moves on.
MonoTick ==
    /\ mono < MaxMono
    /\ mono' = mono + 1
    /\ UNCHANGED <<buckets, rlLast>>
    /\ UNCHANGED <<runEvVars, replayVars, queueVars, storeVars, shareVars>>
    /\ UNCHANGED <<jobVars, runVars, stepVars, lateVars>>

\* RateLimiter.allow(bucket, client_id, capacity=, refill_per_s=).
Allow(key, capacity, rate) ==
    LET b0 == IF NeedsNewBucket(buckets[key], capacity, rate)
              THEN NewBucket(capacity, rate, mono)
              ELSE buckets[key]
        res == Take(b0, mono)
    IN  /\ buckets' = [buckets EXCEPT ![key] =
              [res.bucket EXCEPT !.calls =
                  IF b0.born = mono THEN Min(@ + 1, capacity + 1) ELSE @]]
        /\ rlLast' = [key |-> key, capacity |-> capacity, rate |-> rate,
                      at |-> mono, ok |-> res.ok, retry |-> res.retry,
                      before |-> Refill(b0, mono).tokens,
                      since |-> b0.refusedAt]
        /\ UNCHANGED mono
        /\ UNCHANGED <<runEvVars, replayVars, queueVars, storeVars, shareVars>>
        /\ UNCHANGED <<jobVars, runVars, stepVars, lateVars>>

\* One client of one rate-limited route.
BucketNext ==
    \/ MonoTick
    \/ \E capacity \in Capacities, rate \in Rates : Allow("k1", capacity, rate)

\* Two keys; the second is always called with the same configuration.
LimiterNext ==
    \/ MonoTick
    \/ \E capacity \in Capacities, rate \in Rates : Allow("k1", capacity, rate)
    \/ Allow("k2", 1, 1)

CtlInit == pauses = 0

AuxInit ==
    /\ EvInit /\ ReplayInit /\ QueueInit /\ StoreInit /\ ShareInit
    /\ LimiterInit
    /\ CtlInit
    /\ LoopInit
    /\ AdvInit

\* ------------------------------------------------------------------------
\* Specifications
\* ------------------------------------------------------------------------
\* A job on its own (the run below is left untouched).
InitJob ==
    /\ JobInit
    /\ backend = "mock" /\ maxSteps = 1
    /\ RegInit /\ BatchInit /\ StepInit
    /\ AuxInit

SpecJob == InitJob /\ [][JobNext]_vars

\* One start() call for the job, and the worker threads it brings about.
JobNextOneStart ==
    \/ StartEnter(1)
    \/ StartLaunch(1)
    \/ \E i \in Slots : WorkerCall(i)
    \/ \E i \in Slots : WorkerReturn(i)
    \/ \E i \in Slots : WorkerRecord(i)
    \/ \E i \in Slots : WorkerLaunch(i)

\* Fair scheduling of the threads of a job: a start() call that entered
\* finishes its launch loop, every worker thread created runs, and every
\* make_run call returns or raises.
JobFairness ==
    /\ WF_vars(StartLaunch(1))
    /\ \A i \in Slots : WF_vars(WorkerCall(i))
    /\ \A i \in Slots : WF_vars(WorkerReturn(i))
    /\ \A i \in Slots : WF_vars(WorkerRecord(i))
    /\ \A i \in Slots : WF_vars(WorkerLaunch(i))

SpecJobFair == InitJob /\ [][JobNextOneStart]_vars /\ JobFairness

JobIdle ==
    /\ jobN = 1 /\ jobPar = 1 /\ jobStatus = "pending"
    /\ run_ids = <<>> /\ started = 0 /\ completed = 0
    /\ spc = [s \in Starters |-> "idle"]
    /\ sleft = [s \in Starters |-> 0]
    /\ wpc = [i \in Slots |-> "idle"]
    /\ wres = [i \in Slots |-> "unset"]
    /\ jobSeen = {"pending"}
    /\ lateOk = FALSE

\* A run registered by its creator (status pending), any backend and length.
InitRun ==
    /\ JobIdle
    /\ backend \in Backends
    /\ maxSteps \in 1..MaxSteps
    /\ RegInit /\ BatchInit /\ StepInit
    /\ AuxInit

\* run_once alone on its run.
SpecBatch == InitRun /\ [][BatchNext]_vars

\* run_once and the control endpoints on the same run.
SpecControl == InitRun /\ [][BatchNext \/ ControlNext]_vars

\* /step requests and the control endpoints on a run no run_once drives.
InitStep == InitRun /\ backend = "dfhack"

SpecStep == InitStep /\ [][StepNext \/ ControlNext]_vars

\* The /step requests of two clients alone on such a run.
PaceNext ==
    \/ Tick
    \/ \E h \in {1, 2} : StepArrive(h)
    \/ \E h \in {1, 2} : StepAdmit(h)
    \/ \E h \in {1, 2} : StepExec(h)
    \/ \E h \in {1, 2} : StepCommit(h)
    \/ \E h \in {1, 2} : StepPersist(h)
    \/ \E h \in {1, 2} : StepSetStatus(h)
    \/ \E h \in {1, 2} : StepFinally(h)

SpecPace == InitStep /\ [][PaceNext]_vars

\* run_once and the /step requests of one client on the same run, each
\* reaching the try block.
SoloNext ==
    \/ Tick
    \/ StepArrive(1)
    \/ StepAdmit(1)
    \/ StepExecTry(1)
    \/ StepCommit(1)
    \/ StepPersist(1)
    \/ StepSetStatus(1)
    \/ StepFinally(1)

SpecRun == InitStep /\ [][BatchNext \/ SoloNext]_vars

\* The run_once thread of the run has ended: it returned, raised, or died
\* with its process.
NoLoopThread == bpc \in {"returned", "raised", "gone"}

\* Everything that writes the registry row of one run: run_once, the /step
\* requests of one client (made while no run_once thread is at work on the
\* run), the control endpoints and startup recovery.
LifeNext ==
    \/ BatchNext
    \/ (NoLoopThread /\ SoloNext)
    \/ ControlNext
    \/ Restart

SpecLife == InitRun /\ [][LifeNext]_vars

\* A run function followed through its events, and a replay of its trace.
InitEvents ==
    /\ JobIdle
    /\ backend \in Backends
    /\ maxSteps \in 1..MaxEvSteps
    /\ RegInit /\ BatchInit /\ StepInit
    /\ AuxInit

EventsNext == EvRunNext \/ ReplayNext

SpecEvents == InitEvents /\ [][EventsNext]_vars

\* One registered run, for the parts of the registry that do not depend on
\* its backend and length.
InitOne == InitEvents /\ maxSteps = 1 /\ backend = "mock"

\* The live queue of a run and the subscribers of its stream.
SpecStream == InitOne /\ [][StreamNext]_vars

\* The runs table under create, set_status and process restarts.
SpecStore == InitOne /\ [][StoreNext]_vars

\* Share tokens of a run, the clock, and requests to the public endpoints.
SpecShare == InitOne /\ [][ShareNext]_vars

\* run_once and the control endpoints, the pause_run calls counted.
PauseNext == BatchNext \/ PauseRunCounting \/ ResumeRun \/ StopRun

SpecPause == InitRun /\ [][PauseNext]_vars

\* The rate limiter: one key, and two keys.
SpecBucket == InitOne /\ [][BucketNext]_vars

SpecLimiter == InitOne /\ [][LimiterNext]_vars

\* One call of advance_ticks_exact_external; the thread that runs it keeps
\* running.
SpecAdvance == InitOne /\ [][AdvNext]_vars /\ WF_vars(AdvNext)

\* One producer appending events while the bound loop starts and stops.
SpecLoop == InitOne /\ [][LoopNext]_vars

\* The live queue of a run filled beyond its capacity.
SpecQueue == InitOne /\ [][QueueNext]_vars


\* ========================================================================
\* Properties
\* ========================================================================

\* Number of make_run calls executing right now.
InFlight == Cardinality({i \in Slots : wpc[i] = "running"})

\* C1: for every interleaving of the worker threads, also when start is
\* invoked more than once for the job, the number of make_run calls
\* executing at the same time never exceeds the job's parallelism.
C1_ConcurrencyCap == InFlight <= jobPar

\* C1 witness: parallelism 2 fully used after both start invocations ended.
C1_Witness ==
    /\ jobPar >= 2
    /\ InFlight = jobPar
    /\ \A s \in Starters : spc[s] = "done"

\* Everything run_once has written to its handle, flushed or not.
Written == trace \o fhBuf

\* C2: the step values of the records run_once writes are 0,1,...,k-1 in
\* that order, one record per loop iteration that reached a persist point:
\* inside iteration "step" exactly "step" records exist, and once the loop
\* is left the file holds them all, the last iteration adding at most one.
C2_TraceSteps ==
    /\ \A i \in 1..Len(Written) : Written[i].step = i - 1
    /\ \A i \in 1..Len(Written) : Written[i].by = "batch"
    /\ bpc \in LoopPcs => Len(Written) = bstep
    /\ bpc \in {"exit", "returned", "raised"} =>
         /\ fhBuf = <<>>
         /\ Len(trace) \in {bstep, bstep + 1}

\* C2 witness: a finished run of MaxSteps iterations whose trace holds a
\* rejected step followed by an executed one.
C2_Witness ==
    /\ bpc = "returned"
    /\ Len(trace) = MaxSteps
    /\ trace[1].kind = "rejected"
    /\ trace[2].kind = "executed"

AllowedEdges ==
    {<<"pending", "running">>, <<"running", "completed">>,
     <<"running", "failed">>, <<"running", "stopped">>,
     <<"running", "paused">>, <<"paused", "running">>}

\* C3: every change of a run's status follows one of the edges
\* pending->running, running->completed, running->failed, running->stopped,
\* running->paused, paused->running; a status in {completed, failed,
\* stopped} is never replaced by a different one.
C3_StatusEdges ==
    [][regStatus' # regStatus => <<regStatus, regStatus'>> \in AllowedEdges]_vars

\* C4: when an observe, apply or advance call failed twice in a row during
\* a run, the registry status is failed once run_once has returned.
C4_FailedAfterDoubleFailure ==
    (bpc = "returned" /\ bhist.broke) => regStatus = "failed"

\* Positions of a /step handler between its admission and its response.
ExecPcs == {"exec", "commit", "persist", "status"}

Executing == {h \in Handlers : hpc[h] \in ExecPcs}

C6_SingleWriter == ~(bpc \in LoopPcs /\ Executing # {})

\* C7: on the mock backend with an agent that returns a dict at every step,
\* run_once returns with exactly max_steps trace lines, registry status
\* completed and a stored summary with steps == max_steps.
C7_MockRunCompletes ==
    (backend = "mock" /\ bhist.dictOnly /\ bpc \in {"returned", "raised"}) =>
        /\ bpc = "returned"
        /\ Len(trace) = maxSteps
        /\ regStatus = "completed"
        /\ regSummary = maxSteps

C9_NeverBoth == ~({"completed", "failed"} \subseteq jobSeen)

\* C9 witness: all n runs were started, one failed, and the workers in
\* flight at the failure succeeded afterwards; the job is still failed.
C9_Witness ==
    /\ jobStatus = "failed"
    /\ started = jobN
    /\ completed = jobN - 1
    /\ jobN >= 2
    /\ lateOk
    /\ \A i \in Slots : wpc[i] \in {"idle", "done"}

\* C10: len(run_ids) <= n, and status completed only if len(run_ids) == n.
C10_RunIdsBound ==
    /\ Len(run_ids) <= jobN
    /\ jobStatus = "completed" => Len(run_ids) = jobN

\* C10 witness: a job of the largest size that completed.
C10_Witness ==
    /\ jobStatus = "completed"
    /\ jobN = MaxN
    /\ Len(run_ids) = jobN

\* Every worker thread and every start() call of the job has finished.
JobQuiescent ==
    /\ \A i \in Slots : wpc[i] \in {"idle", "done"}
    /\ \A s \in Starters : spc[s] \in {"idle", "done"}

\* No make_run call made so far raised or returned None.
NoMakeRunFailed == \A i \in Slots : wres[i] \notin {"raise", "none"}

\* C11: with make_run calls that all terminate and fairly scheduled threads,
\* a started job eventually has status completed or failed, and when no
\* make_run failed it has status completed with exactly n run ids.
C11_JobTerminates ==
    (jobStatus = "running") ~>
        /\ jobStatus \in {"completed", "failed"}
        /\ NoMakeRunFailed => (jobStatus = "completed" /\ Len(run_ids) = jobN)

\* C11 witness: a job with more runs than parallelism completed, so at
\* least one launch was made after a completion, and all threads are done.
C11_Witness ==
    /\ jobStatus = "completed"
    /\ jobN > jobPar
    /\ NoMakeRunFailed
    /\ Len(run_ids) = jobN
    /\ JobQuiescent
    /\ spc[1] = "done"

\* Worker threads that have gone through the lock section after make_run.
Recorded == {i \in Slots : wpc[i] \in {"relaunch", "done"}}

\* C12: a worker whose make_run raised or returned a falsy result (None or
\* an empty run id) has marked the job failed, and its result is neither in
\* run_ids nor counted in completed.
C12_FalsyResultFails ==
    /\ \A i \in Recorded :
          wres[i] \in {"raise", "none", "empty"} => jobStatus = "failed"
    /\ \A k \in 1..Len(run_ids) : run_ids[k] # RunIdOf(1, "empty")
    /\ completed = Cardinality({i \in Recorded : wres[i] = "id"})

\* run_once goes from one loop iteration to the next in this step.
BeginsIteration == bpc \in LoopPcs /\ bpc' = "observe" /\ bstep' = bstep + 1

\* A /step request that found the run stopped when it fetched the run's
\* record passes the first lock section in this step.
AdmitsStep ==
    \E h \in Handlers : hpc[h] = "admit" /\ hreq[h].stopped /\ hpc'[h] = "exec"

\* C13, batch half: while the status is stopped, run_once begins no
\* further loop iteration.
C13_BatchHonoursStop == [][regStatus = "stopped" => ~BeginsIteration]_vars

\* C13, interactive half: while the status is stopped, no /step request is
\* admitted for execution.
C13_StepRejectsAfterStop == [][regStatus = "stopped" => ~AdmitsStep]_vars

\* C13: after stop has set the status to stopped no further step executes:
\* the batch loop begins no other iteration and the step endpoint admits
\* no request.
C13_NoStepAfterStop ==
    [][regStatus = "stopped" => (~BeginsIteration /\ ~AdmitsStep)]_vars

\* C14: a run whose status is completed, failed or stopped has ended_at
\* set, whichever operation wrote that status.
C14_TerminalHasEndedAt ==
    regStatus \in {"completed", "failed", "stopped"} => regEnded

\* C14 witness: startup recovery has run, after which an interactive step
\* reached max_steps and wrote status completed with ended_at.
C14_Witness ==
    /\ bpc = "gone"
    /\ ctx.exists /\ ctx.completed
    /\ lastResp = "200"
    /\ regStatus = "completed"
    /\ regEnded

\* C15: the registry's step counter equals the number of steps persisted so
\* far (after k persisted steps it is k), in the batch loop and in the step
\* endpoint, and the status is completed once the counter has reached
\* max_steps and the operation that wrote it has finished.
C15_StepCounterCounts ==
    /\ bpc \in LoopPcs \cup {"exit", "returned"} => regStep = Len(Written)
    /\ (bpc = "idle" /\ \A h \in Handlers : hpc[h] \in {"idle", "admit"}) =>
          regStep = Len(trace)
    /\ (regStep = maxSteps /\ bpc \in {"idle", "returned"}
           /\ \A h \in Handlers : hpc[h] \in {"idle", "admit"}) =>
          regStatus = "completed"

\* C16: the step counter stored in the registry never decreases.
C16_StepNeverDecreases == [][regStep' >= regStep]_vars

\* run_once writes, in this step, one record of the given kind for the
\* iteration in progress.
WritesRecord(kind) ==
    /\ Len(Written') = Len(Written) + 1
    /\ Written'[Len(Written')] = BatchRecord(bstep, kind)

\* run_once leaves the iteration in progress for the next one, or for the
\* end of the loop when it was the last.
GoesToNextStep ==
    IF bstep + 1 < maxSteps
    THEN bpc' = "observe" /\ bstep' = bstep + 1
    ELSE bpc' = "exit"

\* C17: when the agent returns a non-object value or a payload carrying
\* several actions, the batch loop records a rejected step for that
\* iteration, the status is left as it is (the run is neither aborted nor
\* marked failed) and the loop continues with the next step.
C17_ShapeErrorIsRejectedStep ==
    [][\A a \in {"nondict", "multi"} :
         BatchDecideWith(a) =>
             /\ WritesRecord("rejected")
             /\ regStatus' = regStatus
             /\ GoesToNextStep]_vars

\* C18: when parse_action or validate_action rejects the agent's action at
\* step s, a record for step s carrying the rejection is written, neither
\* the executor nor advance is invoked in that iteration (the loop goes
\* straight on), and the loop proceeds to step s+1.
C18_RejectedStepSkipsExecution ==
    [][\A a \in {"unparseable", "invalid"} :
         BatchDecideWith(a) =>
             /\ WritesRecord("rejected")
             /\ bpc' \notin {"apply", "advance"}
             /\ GoesToNextStep]_vars

\* C18 witness: the action of step 0 was rejected, the loop went on and is
\* now executing the action of step 1.
C18_Witness ==
    /\ bpc = "apply"
    /\ bstep = 1
    /\ Len(Written) = 1
    /\ Written[1] = BatchRecord(0, "rejected")

\* C19: every step attempt whose action is rejected by validation appends a
\* trace record holding the proposed action and the rejection reason: the
\* batch loop writes its rejected record, and a /step handler whose action
\* was rejected appends a record (it does not go straight to its finally
\* block).
C19_RejectionIsPersisted ==
    [][/\ \A a \in {"unparseable", "invalid"} :
            BatchDecideWith(a) => WritesRecord("rejected")
       /\ \A h \in Handlers :
            StepExecWith(h, "invalid") =>
                (Len(trace') > Len(trace) \/ hpc'[h] \in {"commit", "persist"})]_vars

\* C20: when the executor returns accepted = false for a validated action,
\* the batch loop goes on to advance with the status untouched and, unless
\* advance itself fails, writes the executed record of the step and
\* continues; a /step handler goes on to its commit section and appends
\* the record of the step.
C20_RefusedStepStillAdvances ==
    [][/\ BatchApplyWith("refused") =>
            (bpc' = "advance" /\ regStatus' = regStatus)
       /\ (bpc = "advance" /\ bhist.refused
              /\ bpc' \in {"observe", "exit"} /\ ~bhist'.broke) =>
            (WritesRecord("executed") /\ GoesToNextStep)
       /\ \A h \in Handlers :
            /\ StepExecWith(h, "refused") => hpc'[h] = "commit"
            /\ (hpc[h] = "persist" /\ hreq[h].refused /\ hpc'[h] = "status") =>
                 trace' = Append(trace, StepRecord(hreq[h].step_index))]_vars

\* C20 witness: after a batch run returned, a /step request whose action
\* the executor refused has advanced, appended its record and is about to
\* update the registry.
C20_Witness ==
    /\ bpc = "returned"
    /\ hpc[1] = "status"
    /\ hreq[1].refused
    /\ trace # <<>>
    /\ trace[Len(trace)] = StepRecord(hreq[1].step_index)

\* Handler h leaves the first lock section in this step.
LeavesAdmit(h) == hpc[h] = "admit" /\ hpc'[h] # "admit"

\* The request of handler h arrived less than max(100 ms,
\* min_step_period_ms) after the end of the run's previous successful step.
ArrivedTooSoon(h) ==
    /\ ctx.last_step_ts_ms # NoTs
    /\ hreq[h].now_ms - ctx.last_step_ts_ms
         < Max(MIN_ALLOWED_PERIOD_MS, hreq[h].min_step_period_ms)

\* C22 as claimed: a request that arrived too soon is answered with the
\* rate-limit error and executes nothing; one that did not is never
\* answered with the rate-limit error.
C22_PacingAsClaimed ==
    [][\A h \in Handlers : LeavesAdmit(h) =>
         IF ArrivedTooSoon(h)
         THEN hpc'[h] = "idle" /\ lastResp' = "429 rate limit"
         ELSE hpc'[h] = "exec"
                \/ lastResp' \in {"400 completed", "429 in progress"}]_vars

\* C22 as amended: a request that arrived too soon is rejected and executes
\* nothing, with the rate-limit error unless the run is already completed
\* (400) or another step is in progress (429 in progress), which are
\* tested first; one that did not arrive too soon is never answered with
\* the rate-limit error.
C22_Pacing ==
    [][\A h \in Handlers : LeavesAdmit(h) =>
         IF ArrivedTooSoon(h)
         THEN /\ hpc'[h] = "idle"
              /\ UNCHANGED <<trace, regStep, regStatus>>
              /\ lastResp' = (IF AlreadyCompleted(ctx, maxSteps) THEN "400 completed"
                              ELSE IF InflightBusy(ctx) THEN "429 in progress"
                              ELSE "429 rate limit")
         ELSE hpc'[h] = "exec"
                \/ lastResp' \in {"400 completed", "429 in progress"}]_vars

\* C22 witness: after the first successful step of a run, a request that
\* arrived within the pacing period was answered with the rate-limit
\* error; no time has passed since the step ended and nothing is in flight.
C22_Witness ==
    /\ lastResp = "429 rate limit"
    /\ ctx.last_step_ts_ms = now
    /\ ctx.step_idx = 1
    /\ ~ctx.inflight /\ ~ctx.completed
    /\ \A h \in Handlers : hpc[h] = "idle"

\* Number of records in the trace file written by step_endpoint.
RECURSIVE CountStepRecords(_)
CountStepRecords(tr) ==
    IF tr = <<>> THEN 0
    ELSE (IF Head(tr).by = "step" THEN 1 ELSE 0) + CountStepRecords(Tail(tr))

\* C23: once max_steps interactive steps of a run have been executed (their
\* records are in the trace), no later step request is admitted, and the
\* trace and the step index stay as they are.
C23_NoStepBeyondMaxSteps ==
    [][CountStepRecords(trace) >= maxSteps =>
         /\ \A h \in Handlers : ~(hpc[h] = "admit" /\ hpc'[h] = "exec")
         /\ trace' = trace
         /\ ctx.exists /\ ctx'.exists => ctx'.step_idx = ctx.step_idx]_vars

\* ------------------------------------------------------------------------
\* Events: retries, live stream and replay
\* ------------------------------------------------------------------------

\* The last k elements of a sequence are all the event type t.
EndsWith(sq, k, t) ==
    /\ Len(sq) >= k
    /\ \A i \in (Len(sq) - k + 1)..Len(sq) : sq[i] = t

\* The second func() of a call_with_retry is invoked in this step.
SecondAttemptStarts == epc.phase = "try2" /\ calls' = calls + 1

\* The loop is left in this step because a call site failed twice.
LoopExitsOnFailure == epc.phase = "fail2" /\ epc'.site = "exit"

\* C21: within one iteration a call site invokes the backend at most twice;
\* when the second attempt starts, the stderr event of the first failure
\* is already published (to the iteration's events and to the live queue);
\* and when the loop exits after a second failure, a further stderr event
\* has been published.
C21_RetryOncePublishingEachFailure ==
    /\ [](calls <= 2)
    /\ [][(SecondAttemptStarts =>
              EndsWith(evs, 1, "stderr") /\ EndsWith(live, 1, "stderr"))
          /\ (LoopExitsOnFailure =>
              EndsWith(evs', 2, "stderr") /\ EndsWith(live', 2, "stderr"))]_vars

\* The apply call site failed twice: both failures are published and the
\* loop is left.
C21_Witness ==
    /\ epc = At("exit", "try1")
    /\ calls = 2
    /\ evs = <<"state", "action", "validation", "stderr", "stderr">>

\* C24: for a run whose run function returned, the event types read back
\* from its trace file (each record's events, in file order) are exactly
\* the event types pushed to the live queue, in the same order.
C24_ReplayEqualsLive ==
    epc.site = "returned" => Flatten(evTrace) = live

IsPrefix(a, b) == Len(a) <= Len(b) /\ SubSeq(b, 1, Len(a)) = a

\* The frames of the replay that carry events of records.
EventFrames ==
    IF rpc = "closed" /\ Len(frames) > 0
    THEN SubSeq(frames, 1, Len(frames) - 1)
    ELSE frames

\* C25: the replay yields the events of the records in trace order; a
\* stream that finished has yielded exactly one end frame, as its last
\* frame, whether the trace is empty or not and whether the client went
\* away or not; and it has yielded every event of the trace when the
\* client stayed.
C25_ReplayInOrderThenEnd ==
    /\ IsPrefix(EventFrames, Flatten(evTrace))
    /\ \A i \in 1..Len(EventFrames) : EventFrames[i] # "end"
    /\ rpc = "closed" => /\ EndsWith(frames, 1, "end")
                         /\ ~clientGone => EventFrames = Flatten(evTrace)
    /\ rpc # "closed" => EventFrames = frames

\* A replay whose client went away midway, and which finished: it yielded
\* some events, not all of them, and then the end frame.
C25_Witness ==
    /\ rpc = "closed"
    /\ clientGone
    /\ Len(frames) >= 2
    /\ Len(frames) - 1 < Len(Flatten(evTrace))

\* The elements of a sequence.
Range(sq) == {sq[i] : i \in 1..Len(sq)}

\* C26: while several subscribers stream the same run, each of them has
\* been sent every event appended since it attached that has left the
\* queue.
C26_EverySubscriberGetsEveryEvent ==
    (\A s \in Subscribers : subPc[s] = "on") =>
        \A s \in Subscribers :
            \A e \in subFrom[s]..(nextEv - 1) :
                e \in Range(queue) \/ e \in Range(subGot[s])

StoredInterrupted(row) == row # NoRow /\ row.status = "running" /\ ~row.ended_at

\* C28: when a new process opens the store, every row stored as running
\* with no ended_at becomes failed with ended_at set and is otherwise as it
\* was, and every other row is left as it was.
C28_RecoveryMarksOnlyInterrupted ==
    [][storeLast'.op = "open" =>
        \A r \in RunIds :
            IF StoredInterrupted(rows[r])
            THEN rows'[r] = [rows[r] EXCEPT !.status = "failed",
                                            !.ended_at = TRUE]
            ELSE rows'[r] = rows[r]]_vars

\* The store was just opened: one run was marked failed, and the other,
\* stored as running with an ended_at, was not.
C28_Witness ==
    /\ storeLast.op = "open"
    /\ storeLast.marked = {"r1"}
    /\ rows["r1"].status = "failed" /\ rows["r1"].ended_at
    /\ rows["r2"] # NoRow /\ rows["r2"].status = "running"

C30_ScopeAndExpiry ==
    /\ \A tok \in Tokens : Expired(tok) => GetShare(tok) = NoShare
    /\ lastAccess.granted =>
          /\ shares[lastAccess.token] # NoShare
          /\ ~lastAccess.expired
          /\ RequiredScope[lastAccess.endpoint] # NoScope =>
                RequiredScope[lastAccess.endpoint]
                    \in shares[lastAccess.token].scope

\* A token with scope {live} that get_share still returns was just refused
\* by the export endpoint.
C30_Witness ==
    /\ lastAccess = [token |-> "t1", endpoint |-> "export",
                     granted |-> FALSE, expired |-> FALSE]
    /\ shares["t1"] # NoShare
    /\ shares["t1"].scope = {"live"}
    /\ GetShare("t1") # NoShare

\* ------------------------------------------------------------------------
\* Rate limiting
\* ------------------------------------------------------------------------

\* The bucket the latest allow call worked on, as that call left it.
LastBucket == buckets[rlLast.key]

\* C31: while no time has passed since a bucket of capacity c was created,
\* its first c allow calls are granted and the next one is refused with a
\* positive retry_after; and a call made at least 1/r seconds after a
\* refusal that no grant has followed is granted (r > 0).
C31_BurstThenRefill ==
    rlLast.key # "none" =>
        /\ (LastBucket.born = rlLast.at /\ LastBucket.calls <= rlLast.capacity)
              => rlLast.ok
        /\ (LastBucket.born = rlLast.at /\ LastBucket.calls = rlLast.capacity + 1)
              => (~rlLast.ok /\ rlLast.retry.num > 0)
        /\ (/\ rlLast.since # NoTime
            /\ rlLast.rate > 0
            /\ (rlLast.at - rlLast.since) * rlLast.rate >= TokenUnit)
              => rlLast.ok

\* A bucket of capacity 2 was emptied and refused a call at time 0; the
\* call made 1/r seconds later was granted.
C31_Witness ==
    /\ rlLast.key = "k1" /\ rlLast.capacity = 2 /\ rlLast.rate = 1
    /\ rlLast.since = 0
    /\ rlLast.at = TokenUnit
    /\ rlLast.ok

\* C32: the token count of every bucket lies between 0 and its capacity.
C32_TokensWithinCapacity ==
    \A k \in Keys :
        buckets[k] # NoBucket =>
            /\ buckets[k].tokens >= 0
            /\ buckets[k].tokens <= buckets[k].capacity * TokenUnit

\* A bucket of capacity 1 that was emptied when it was created is full, and
\* no more than full, after a refill worth two tokens per tick, and grants
\* the call.
C32_Witness ==
    /\ rlLast.key = "k1" /\ rlLast.ok
    /\ rlLast.capacity = 1 /\ rlLast.rate = 2 * TokenUnit
    /\ buckets["k1"].born < rlLast.at
    /\ rlLast.before = TokenUnit
    /\ buckets["k1"].tokens = 0

\* C33: a granted allow call leaves one token less than the refill gave,
\* a refused one leaves what the refill gave; the retry hint of a refused
\* call is the time in which the refill rate yields the missing part of a
\* token, or 0.1 seconds when that time is shorter.
C33_TakeOneOrNothing ==
    rlLast.key # "none" =>
        /\ rlLast.ok => LastBucket.tokens = rlLast.before - TokenUnit
        /\ ~rlLast.ok =>
            /\ LastBucket.tokens = rlLast.before
            /\ rlLast.retry.num >= MIN_RETRY * rlLast.retry.den
            /\ rlLast.rate > 0 =>
                \/ rlLast.retry.num * rlLast.rate
                      = (TokenUnit - rlLast.before) * rlLast.retry.den
                \/ /\ rlLast.retry = [num |-> MIN_RETRY, den |-> 1]
                   /\ TokenUnit - rlLast.before < MIN_RETRY * rlLast.rate

\* A call was refused by a bucket that refills the missing part in less
\* than 0.1 seconds: the hint is 0.1 seconds.
C33_Witness ==
    /\ rlLast.key = "k1" /\ ~rlLast.ok
    /\ rlLast.rate = 2 * TokenUnit
    /\ rlLast.retry = [num |-> MIN_RETRY, den |-> 1]

\* C34: an allow call for a key whose stored bucket has another capacity
\* or another refill rate stores a new bucket, filled to the new capacity
\* before the withdrawal; and no allow call changes the bucket of another
\* key.
C34_ReconfigureReplaces ==
    [][mono' = mono =>
        LET k == rlLast'.key
        IN  /\ \A o \in Keys \ {k} : buckets'[o] = buckets[o]
            /\ (/\ buckets[k] # NoBucket
                /\ \/ buckets[k].capacity # rlLast'.capacity
                   \/ buckets[k].refill_per_s # rlLast'.rate)
               => /\ buckets'[k].capacity = rlLast'.capacity
                  /\ buckets'[k].refill_per_s = rlLast'.rate
                  /\ buckets'[k].updated_at = mono
                  /\ buckets'[k].tokens
                        = (rlLast'.capacity - 1) * TokenUnit]_vars

\* A drained bucket of capacity 1 was just replaced by one of capacity 2,
\* while the other key holds a bucket of its own.
C34_Witness ==
    /\ rlLast.key = "k1" /\ rlLast.capacity = 2 /\ rlLast.ok
    /\ rlLast.at > 0
    /\ buckets["k1"].born = rlLast.at
    /\ buckets["k1"].tokens = TokenUnit
    /\ buckets["k2"] # NoBucket

\* ------------------------------------------------------------------------
\* Pausing
\* ------------------------------------------------------------------------

\* The registry record of the run.
Record == <<regStatus, regStep, regStarted, regEnded, regSummary>>

\* C35 as stated: the pause_env() at the start of an iteration, however it
\* ends, leaves the record as it was, and a pause_run call on a record that
\* a pause_run call produced leaves it as it is.
C35_PauseNeverChangesRecord ==
    [][/\ \A p \in {"ok", "raise"}, o \in {"ok", "fail1"} :
             BatchObserveWith(p, o) => Record' = Record
       /\ (PauseRunCounting /\ regStatus = "paused") => Record' = Record]_vars

\* C35: a pause_env() that returns leaves the record as it was; one that
\* raises ends the run, the record getting status failed and an ended_at
\* and nothing else; pause_run sets the status to paused and nothing else,
\* so that on a paused record it changes nothing.
C35_PauseIdempotent ==
    [][/\ \A o \in {"ok", "fail1"} :
             BatchObserveWith("ok", o) => Record' = Record
       /\ \A o \in {"ok", "fail1", "fail2"} :
             BatchObserveWith("raise", o) =>
                 Record' = <<"failed", regStep, regStarted, TRUE, regSummary>>
       /\ PauseRunCounting =>
             Record' = <<"paused", regStep, regStarted, regEnded, regSummary>>
       /\ (PauseRunCounting /\ regStatus = "paused") => Record' = Record]_vars

\* pause_run has been called at least twice and the record is paused, while
\* run_once is in the middle of an iteration.
C35_Witness ==
    /\ pauses = 2
    /\ regStatus = "paused"
    /\ bpc = "decide"

\* ------------------------------------------------------------------------
\* The last interactive step
\* ------------------------------------------------------------------------

\* C36: the set_status of a step request whose step brought the number of
\* executed steps to max_steps (its index is max_steps - 1) leaves the
\* record with status completed and an ended_at, for every max_steps >= 1.
C36_LastStepCompletesRun ==
    [][\A h \in Handlers :
          (StepSetStatus(h) /\ maxSteps >= 1
                            /\ hreq[h].step_index + 1 = maxSteps)
              => (regStatus' = "completed" /\ regEnded')]_vars

\* ------------------------------------------------------------------------
\* Step indices of the interactive trace
\* ------------------------------------------------------------------------

\* The records step_endpoint has appended to the trace, in file order.
StepRecords == SelectSeq(trace, LAMBDA r : r.by = "step")

\* C37: no two records of step_endpoint carry the same step index, and when
\* no request is in progress the indices are 0 .. n-1 for the n records,
\* also after the step context has been rebuilt from the registry.
C37_StepIndicesContiguous ==
    /\ \A i, j \in 1..Len(StepRecords) :
          i # j => StepRecords[i].step # StepRecords[j].step
    /\ (\A h \in Handlers : hpc[h] = "idle") =>
          {StepRecords[i].step : i \in 1..Len(StepRecords)}
              = 0..(Len(StepRecords) - 1)

\* ------------------------------------------------------------------------
\* The inflight flag
\* ------------------------------------------------------------------------

Placed == subGot[1] \o queue

\* C38: the events of the one producer are placed in the queue in the order
\* of the append_event calls: emission numbers only rise along the queue,
\* whether a push was direct or handed to the loop, and whether or not the
\* loop started or stopped in between.
C38_QueueInAppendOrder ==
    \A i, j \in 1..Len(Placed) : i < j => Placed[i] < Placed[j]

\* ------------------------------------------------------------------------
\* advance_ticks_exact_external
\* ------------------------------------------------------------------------

\* The call has returned after its polling loop.
ReturnedFromLoop == apc = "done" /\ ahist.exit # "none"

\* The loop was left for one of the three reasons, and for a true one.
LoopExitReasons ==
    ReturnedFromLoop =>
        /\ areq.want = Min(areq.ticks, MAX_WANT)
        /\ ahist.exit \in {"advanced", "read_failed", "timeout"}
        /\ ahist.exit = "advanced" => aloc.advanced >= areq.want
        /\ ahist.exit = "read_failed" => ares.error = "tick_read_failed"
        /\ ahist.exit = "timeout" => aloc.elapsed_ms > SafetyMs(areq.want)

\* After the loop, a pause was issued if repause is true.
RepauseIssued == (ReturnedFromLoop /\ areq.repause) => ahist.repaused

\* C40 as stated: the call returns, the loop having been left for one of its
\* three reasons; a result of the timeout case has ok = True and the
\* timeout flag; with repause true a pause was issued after the loop.
C40_TimeoutIsOk ==
    /\ <>(apc = "done")
    /\ [](LoopExitReasons /\ RepauseIssued)
    /\ []((ReturnedFromLoop /\ ahist.exit = "timeout")
             => (ares.timeout /\ ares.ok))

\* C40: the call returns, the loop having been left for one of its three
\* reasons; a result of the timeout case has the timeout flag, and ok =
\* True unless the pause issued after the loop failed, when ok is False and
\* the error is repause_failed; with repause true a pause was issued after
\* the loop.
C40_TerminatesAndRepauses ==
    /\ <>(apc = "done")
    /\ [](LoopExitReasons /\ RepauseIssued)
    /\ []((ReturnedFromLoop /\ ahist.exit = "timeout")
             => /\ ares.timeout
                /\ ares.ok <=> ares.error = "none"
                /\ ares.error \in {"none", "repause_failed"}
                /\ ~areq.repause => ares.ok)

\* A call for more than the cap with repause true timed out after the game
\* had advanced by less than the 1000 ticks wanted, and was paused again.
C40_Witness ==
    /\ apc = "done"
    /\ areq.ticks > MAX_WANT
    /\ areq.repause
    /\ ahist.exit = "timeout"
    /\ ahist.repaused
    /\ aloc.advanced > 0
    /\ ares.ok /\ ares.timeout

====
